---- MODULE Spec2Model ----
(***************************************************************************)
(* A model of afire's type-directed value parser (src/afire/parser.py):    *)
(* the literal parser (_LiteralEval, DefaultParseValue), the registered    *)
(* converters (TypeToParser, _BytesParser) and the typed converter         *)
(* (ParseComplexValue, _ParseConvert, SpecTypeParseValueGen).              *)
(*                                                                         *)
(* Every call of the parser is a pure function of its arguments, so the    *)
(* state of the model is the last call made: which function, on which      *)
(* token / value / annotation, and how it ended.                           *)
(*                                                                         *)
(* Python strings are sequences of one-character strings, so that          *)
(* int("5"), str(5), startswith, iteration over a string and utf8 encoding *)
(* are computed rather than looked up.  Python exceptions are outcomes     *)
(* with st # "ok"; st is the exception class.                              *)
(***************************************************************************)
EXTENDS Integers, Sequences, FiniteSets, TLC

----------------------------------------------------------------------------
(* Characters: printable ASCII, code points 32..126 (code point 96, the     *)
(* grave accent, is written "grave").                                      *)

AsciiChars ==
   <<
      " ", "!", "\"", "#", "$", "%", "&", "'", "(", ")", "*", "+", ",", "-", ".", "/",
      "0", "1", "2", "3", "4", "5", "6", "7", "8", "9", ":", ";", "<", "=", ">", "?",
      "@", "A", "B", "C", "D", "E", "F", "G", "H", "I", "J", "K", "L", "M", "N", "O",
      "P", "Q", "R", "S", "T", "U", "V", "W", "X", "Y", "Z", "[", "\\", "]", "^", "_",
      "grave", "a", "b", "c", "d", "e", "f", "g", "h", "i", "j", "k", "l", "m", "n", "o",
      "p", "q", "r", "s", "t", "u", "v", "w", "x", "y", "z", "{", "|", "}", "~"
   >>

Ord(c) == 31 + (CHOOSE i \in 1..Len(AsciiChars) : AsciiChars[i] = c)

Printable(n) == n > 31 /\ n < 32 + Len(AsciiChars)

Chr(n) == AsciiChars[n - 31]

IsDigit(c) == c \in {"0", "1", "2", "3", "4", "5", "6", "7", "8", "9"}

DigitVal(c) == Ord(c) - Ord("0")

DigitChar(d) == Chr(Ord("0") + d)

HexChar(d) == IF d < 10 THEN DigitChar(d) ELSE Chr(Ord("a") + d - 10)

Abs(n) == IF n < 0 THEN 0 - n ELSE n

Range(s) == {s[i] : i \in DOMAIN s}

StartsWith(s, p) == Len(s) >= Len(p) /\ SubSeq(s, 1, Len(p)) = p

RECURSIVE Flatten(_)
Flatten(ss) == IF ss = <<>> THEN <<>> ELSE Head(ss) \o Flatten(Tail(ss))

RECURSIVE JoinWith(_, _)
JoinWith(ss, sep) ==
   IF ss = <<>> THEN <<>>
   ELSE IF Len(ss) = 1 THEN Head(ss)
   ELSE Head(ss) \o sep \o JoinWith(Tail(ss), sep)

----------------------------------------------------------------------------
(* Python values.  One record shape for every type:                        *)
(*   ty    the Python type name                                            *)
(*   n     int: the value; bool: 0/1; float, complex: the (real) value in  *)
(*         tenths                                                          *)
(*   m     complex: the imaginary part in tenths                           *)
(*   s     str: the characters                                             *)
(*   b     bytes: the byte values                                          *)
(*   elts  list, tuple, set: the elements; dict: the keys (insertion       *)
(*         order; a set is iterated in insertion order here)               *)
(*   vals  dict: the values, aligned with elts                             *)

Val(ty, n, m, s, b, elts, vals) ==
   [ty |-> ty, n |-> n, m |-> m, s |-> s, b |-> b, elts |-> elts, vals |-> vals]

IntV(n) == Val("int", n, 0, <<>>, <<>>, <<>>, <<>>)
BoolV(x) == Val("bool", IF x THEN 1 ELSE 0, 0, <<>>, <<>>, <<>>, <<>>)
FloatV(tenths) == Val("float", tenths, 0, <<>>, <<>>, <<>>, <<>>)
ComplexV(re, im) == Val("complex", re, im, <<>>, <<>>, <<>>, <<>>)
StrV(s) == Val("str", 0, 0, s, <<>>, <<>>, <<>>)
BytesV(b) == Val("bytes", 0, 0, <<>>, b, <<>>, <<>>)
NoneV == Val("NoneType", 0, 0, <<>>, <<>>, <<>>, <<>>)
EllipsisV == Val("ellipsis", 0, 0, <<>>, <<>>, <<>>, <<>>)
ListV(elts) == Val("list", 0, 0, <<>>, <<>>, elts, <<>>)
TupleV(elts) == Val("tuple", 0, 0, <<>>, <<>>, elts, <<>>)
SetV(elts) == Val("set", 0, 0, <<>>, <<>>, elts, <<>>)
DictV(keys, vals) == Val("dict", 0, 0, <<>>, <<>>, keys, vals)

(* How a call ends: st = "ok" with a value, or st = the exception class    *)
(* raised; why = the place that raised it; tried = the Sum variants the    *)
(* outermost Sum dispatch started to convert, in order.                    *)
Ok(v) == [st |-> "ok", val |-> v, why |-> "", tried |-> <<>>]
Raise(exc, why) == [st |-> exc, val |-> NoneV, why |-> why, tried |-> <<>>]

IsOk(o) == o.st = "ok"

IsNum(v) == v.ty \in {"int", "bool", "float", "complex"}

(* A number's real part in tenths. *)
Re10(v) == IF v.ty \in {"int", "bool"} THEN 10 * v.n ELSE v.n

(* Python's == on the modelled values. *)
RECURSIVE PyEq(_, _)
PyEq(a, b) ==
   IF IsNum(a) /\ IsNum(b) THEN Re10(a) = Re10(b) /\ a.m = b.m
   ELSE IF a.ty # b.ty THEN FALSE
   ELSE IF a.ty = "str" THEN a.s = b.s
   ELSE IF a.ty = "bytes" THEN a.b = b.b
   ELSE IF a.ty \in {"list", "tuple"} THEN
      /\ Len(a.elts) = Len(b.elts)
      /\ \A i \in DOMAIN a.elts : PyEq(a.elts[i], b.elts[i])
   ELSE IF a.ty = "set" THEN
      /\ \A i \in DOMAIN a.elts : \E j \in DOMAIN b.elts : PyEq(a.elts[i], b.elts[j])
      /\ \A j \in DOMAIN b.elts : \E i \in DOMAIN a.elts : PyEq(a.elts[i], b.elts[j])
   ELSE IF a.ty = "dict" THEN
      /\ Len(a.elts) = Len(b.elts)
      /\ \A i \in DOMAIN a.elts : \E j \in DOMAIN b.elts :
            PyEq(a.elts[i], b.elts[j]) /\ PyEq(a.vals[i], b.vals[j])
   ELSE TRUE

RECURSIVE Hashable(_)
Hashable(v) ==
   IF v.ty \in {"list", "set", "dict"} THEN FALSE
   ELSE IF v.ty = "tuple" THEN \A i \in DOMAIN v.elts : Hashable(v.elts[i])
   ELSE TRUE

(* set.add / dict.__setitem__ on the insertion-ordered representation. *)
SetAdd(elts, x) ==
   IF \E i \in DOMAIN elts : PyEq(elts[i], x) THEN elts ELSE Append(elts, x)

DictPut(d, k, v) ==
   IF \E i \in DOMAIN d.elts : PyEq(d.elts[i], k)
   THEN LET i == CHOOSE j \in DOMAIN d.elts : PyEq(d.elts[j], k)
        IN  DictV(d.elts, [d.vals EXCEPT ![i] = v])
   ELSE DictV(Append(d.elts, k), Append(d.vals, v))

(* set(iterable): the first unhashable member raises TypeError. *)
RECURSIVE SetFrom(_, _)
SetFrom(acc, xs) ==
   IF xs = <<>> THEN Ok(SetV(acc))
   ELSE IF ~Hashable(Head(xs)) THEN Raise("TypeError", "Unhashable")
   ELSE SetFrom(SetAdd(acc, Head(xs)), Tail(xs))

(* The items a for-loop, zip() or len() sees; defined when HasLen. *)
HasLen(v) == v.ty \in {"str", "bytes", "list", "tuple", "set", "dict"}

Items(v) ==
   IF v.ty = "str" THEN [i \in DOMAIN v.s |-> StrV(<<v.s[i]>>)]
   ELSE IF v.ty = "bytes" THEN [i \in DOMAIN v.b |-> IntV(v.b[i])]
   ELSE v.elts

----------------------------------------------------------------------------
(* str(value): repr of everything but a str.                               *)

RECURSIVE NatRepr(_)
NatRepr(n) ==
   IF n < 10 THEN <<DigitChar(n)>> ELSE Append(NatRepr(n \div 10), DigitChar(n % 10))

IntRepr(n) == IF n < 0 THEN <<"-">> \o NatRepr(0 - n) ELSE NatRepr(n)

FloatRepr(t) ==
   (IF t < 0 THEN <<"-">> ELSE <<>>)
      \o NatRepr(Abs(t) \div 10) \o <<".">> \o NatRepr(Abs(t) % 10)

(* A part of a complex number prints without ".0". *)
PartRepr(t) == IF Abs(t) % 10 = 0 THEN NatRepr(Abs(t) \div 10) ELSE FloatRepr(Abs(t))

ComplexRepr(re, im) ==
   IF re = 0 THEN (IF im < 0 THEN <<"-">> ELSE <<>>) \o PartRepr(im) \o <<"j">>
   ELSE <<"(">> \o (IF re < 0 THEN <<"-">> ELSE <<>>) \o PartRepr(re)
           \o (IF im < 0 THEN <<"-">> ELSE <<"+">>) \o PartRepr(im) \o <<"j", ")">>

QuoteFor(hasSingle, hasDouble) == IF hasSingle /\ ~hasDouble THEN "\"" ELSE "'"

StrRepr(s) ==
   LET q == QuoteFor("'" \in Range(s), "\"" \in Range(s))
       Esc(c) == IF c = "\\" THEN <<"\\", "\\">>
                 ELSE IF c = q THEN <<"\\", c>>
                 ELSE <<c>>
   IN  <<q>> \o Flatten([i \in DOMAIN s |-> Esc(s[i])]) \o <<q>>

BytesRepr(b) ==
   LET q == QuoteFor(Ord("'") \in Range(b), Ord("\"") \in Range(b))
       Esc(x) == IF x = 9 THEN <<"\\", "t">>
                 ELSE IF x = 10 THEN <<"\\", "n">>
                 ELSE IF x = 13 THEN <<"\\", "r">>
                 ELSE IF ~Printable(x) THEN <<"\\", "x", HexChar(x \div 16), HexChar(x % 16)>>
                 ELSE IF Chr(x) = "\\" THEN <<"\\", "\\">>
                 ELSE IF Chr(x) = q THEN <<"\\", q>>
                 ELSE <<Chr(x)>>
   IN  <<"b", q>> \o Flatten([i \in DOMAIN b |-> Esc(b[i])]) \o <<q>>

RECURSIVE Repr(_)
Repr(v) ==
   LET Each(xs) == JoinWith([i \in DOMAIN xs |-> Repr(xs[i])], <<",", " ">>)
       Pair(i) == Repr(v.elts[i]) \o <<":", " ">> \o Repr(v.vals[i])
   IN  CASE v.ty = "int" -> IntRepr(v.n)
         [] v.ty = "bool" -> IF v.n = 1 THEN <<"T", "r", "u", "e">>
                             ELSE <<"F", "a", "l", "s", "e">>
         [] v.ty = "float" -> FloatRepr(v.n)
         [] v.ty = "complex" -> ComplexRepr(v.n, v.m)
         [] v.ty = "str" -> StrRepr(v.s)
         [] v.ty = "bytes" -> BytesRepr(v.b)
         [] v.ty = "NoneType" -> <<"N", "o", "n", "e">>
         [] v.ty = "ellipsis" -> <<"E", "l", "l", "i", "p", "s", "i", "s">>
         [] v.ty = "list" -> <<"[">> \o Each(v.elts) \o <<"]">>
         [] v.ty = "tuple" ->
               IF Len(v.elts) = 1 THEN <<"(">> \o Repr(v.elts[1]) \o <<",", ")">>
               ELSE <<"(">> \o Each(v.elts) \o <<")">>
         [] v.ty = "set" ->
               IF v.elts = <<>> THEN <<"s", "e", "t", "(", ")">>
               ELSE <<"{">> \o Each(v.elts) \o <<"}">>
         [] v.ty = "dict" ->
               <<"{">> \o JoinWith([i \in DOMAIN v.elts |-> Pair(i)], <<",", " ">>) \o <<"}">>

(* The str constructor: never fails. *)
PyStr(v) == Ok(StrV(IF v.ty = "str" THEN v.s ELSE Repr(v)))

----------------------------------------------------------------------------
(* int(value).                                                             *)

RECURSIVE Strip(_)
Strip(s) ==
   IF s # <<>> /\ Head(s) = " " THEN Strip(Tail(s))
   ELSE IF s # <<>> /\ s[Len(s)] = " " THEN Strip(SubSeq(s, 1, Len(s) - 1))
   ELSE s

(* digits, with single underscores between digits *)
IsIntBody(s) ==
   /\ s # <<>>
   /\ \A i \in DOMAIN s : IsDigit(s[i]) \/ s[i] = "_"
   /\ IsDigit(s[1]) /\ IsDigit(s[Len(s)])
   /\ \A i \in 1..(Len(s) - 1) : ~(s[i] = "_" /\ s[i + 1] = "_")

RECURSIVE DigitsValue(_, _)
DigitsValue(acc, s) ==
   IF s = <<>> THEN acc
   ELSE IF Head(s) = "_" THEN DigitsValue(acc, Tail(s))
   ELSE DigitsValue(10 * acc + DigitVal(Head(s)), Tail(s))

ParseIntChars(raw) ==
   LET s == Strip(raw)
       signed == s # <<>> /\ Head(s) \in {"+", "-"}
       body == IF signed THEN Tail(s) ELSE s
   IN  IF ~IsIntBody(body) THEN Raise("ValueError", "ConversionError")
       ELSE IF signed /\ Head(s) = "-" THEN Ok(IntV(0 - DigitsValue(0, body)))
       ELSE Ok(IntV(DigitsValue(0, body)))

PyInt(v) ==
   CASE v.ty \in {"int", "bool"} -> Ok(IntV(v.n))
     [] v.ty = "float" -> Ok(IntV(IF v.n < 0 THEN 0 - (Abs(v.n) \div 10) ELSE v.n \div 10))
     [] v.ty = "str" -> ParseIntChars(v.s)
     [] v.ty = "bytes" ->
           IF \A i \in DOMAIN v.b : Printable(v.b[i])
           THEN ParseIntChars([i \in DOMAIN v.b |-> Chr(v.b[i])])
           ELSE Raise("ValueError", "ConversionError")
     [] OTHER -> Raise("TypeError", "IntArgument")

----------------------------------------------------------------------------
(* Syntax trees, as ast.parse(value, mode="eval") builds them.             *)
(*   k     the node class                                                  *)
(*   op    UnaryOp, BinOp, BoolOp, Compare: the operator class             *)
(*   id    Name: the identifier; Attribute: the attribute name             *)
(*   val   Constant: the value                                             *)
(*   kids  the first list-valued field (elts, keys, args, values,          *)
(*         comparators)                                                    *)
(*   vals  Dict: the values field                                          *)
(*   subs  the node-valued fields, in field order (body; operand; left,    *)
(*         right; func; value)                                             *)
(* The operator and context objects (Add(), Load()) are nodes too, but     *)
(* never a Name and without children, so the rewriting pass skips them.    *)

Node(k, op, id, val, kids, vals, subs) ==
   [k |-> k, op |-> op, id |-> id, val |-> val, kids |-> kids, vals |-> vals, subs |-> subs]

Constant(v) == Node("Constant", "", <<>>, v, <<>>, <<>>, <<>>)
Name(id) == Node("Name", "", id, NoneV, <<>>, <<>>, <<>>)
ListN(elts) == Node("List", "", <<>>, NoneV, elts, <<>>, <<>>)
TupleN(elts) == Node("Tuple", "", <<>>, NoneV, elts, <<>>, <<>>)
SetN(elts) == Node("Set", "", <<>>, NoneV, elts, <<>>, <<>>)
DictN(keys, values) == Node("Dict", "", <<>>, NoneV, keys, values, <<>>)
UnaryOp(op, operand) == Node("UnaryOp", op, <<>>, NoneV, <<>>, <<>>, <<operand>>)
BinOp(left, op, right) == Node("BinOp", op, <<>>, NoneV, <<>>, <<>>, <<left, right>>)
Compare(left, op, comparators) == Node("Compare", op, <<>>, NoneV, comparators, <<>>, <<left>>)
BoolOp(op, values) == Node("BoolOp", op, <<>>, NoneV, values, <<>>, <<>>)
Call(func, args) == Node("Call", "", <<>>, NoneV, args, <<>>, <<func>>)
Attribute(value, attr) == Node("Attribute", "", attr, NoneV, <<>>, <<>>, <<value>>)
Expression(body) == Node("Expression", "", <<>>, NoneV, <<>>, <<>>, <<body>>)

(* ast.parse raised SyntaxError. *)
SyntaxErrorNode == Node("SyntaxError", "", <<>>, NoneV, <<>>, <<>>, <<>>)

(* A source string outside the catalogue: the model does not know its tree. *)
UnmodelledNode == Node("Unmodelled", "", <<>>, NoneV, <<>>, <<>>, <<>>)

(* The command-line tokens of the model, each with its spelling. *)
TokenCatalogue ==
   {
      <<>>,                                                       \* (empty)
      <<"(">>,                                                    \* (
      <<"0">>,                                                    \* 0
      <<"1">>,                                                    \* 1
      <<"5">>,                                                    \* 5
      <<"a">>,                                                    \* a
      <<"(", ")">>,                                               \* ()
      <<"+", "5">>,                                               \* +5
      <<"-", "5">>,                                               \* -5
      <<"-", "a">>,                                               \* -a
      <<"2", "j">>,                                               \* 2j
      <<"4", "2">>,                                               \* 42
      <<"[", "]">>,                                               \* []
      <<"b", "'">>,                                               \* b'
      <<"{", "}">>,                                               \* {}
      <<"'", "5", "'">>,                                          \* '5'
      <<"-", "-", "5">>,                                          \* --5
      <<"1", "+", "2">>,                                          \* 1+2
      <<"1", ".", "0">>,                                          \* 1.0
      <<"1", ".", "5">>,                                          \* 1.5
      <<"1", "<", "2">>,                                          \* 1<2
      <<"[", "1", ",">>,                                          \* [1,
      <<"[", "5", "]">>,                                          \* [5]
      <<"[", "a", "]">>,                                          \* [a]
      <<"a", "-", "b">>,                                          \* a-b
      <<"a", ".", "b">>,                                          \* a.b
      <<"a", "b", "c">>,                                          \* abc
      <<"x", "y", "z">>,                                          \* xyz
      <<"{", "a", "}">>,                                          \* {a}
      <<"'", " ", "5", "'">>,                                     \* ' 5'
      <<"(", "1", ",", ")">>,                                     \* (1,)
      <<"1", "+", "2", "j">>,                                     \* 1+2j
      <<"N", "o", "n", "e">>,                                     \* None
      <<"T", "R", "U", "E">>,                                     \* TRUE
      <<"T", "r", "u", "e">>,                                     \* True
      <<"[", "-", "5", "]">>,                                     \* [-5]
      <<"[", "-", "a", "]">>,                                     \* [-a]
      <<"b", "'", "x", "'">>,                                     \* b'x'
      <<"f", "(", "a", ")">>,                                     \* f(a)
      <<"t", "r", "u", "e">>,                                     \* true
      <<"(", "1", ",", "2", ")">>,                                \* (1,2)
      <<"-", "T", "r", "u", "e">>,                                \* -True
      <<"F", "a", "l", "s", "e">>,                                \* False
      <<"[", "'", "5", "'", "]">>,                                \* ['5']
      <<"[", "1", "+", "2", "]">>,                                \* [1+2]
      <<"[", "1", ",", "2", "]">>,                                \* [1,2]
      <<"[", "1", ".", "0", "]">>,                                \* [1.0]
      <<"[", "1", "<", "2", "]">>,                                \* [1<2]
      <<"[", "[", "1", "]", "]">>,                                \* [[1]]
      <<"[", "a", "-", "b", "]">>,                                \* [a-b]
      <<"b", "\"", "x", "y", "\"">>,                              \* b"xy"
      <<"n", "o", "t", " ", "a">>,                                \* not a
      <<"s", "e", "t", "(", ")">>,                                \* set()
      <<"{", "1", ",", "2", "}">>,                                \* {1,2}
      <<"{", "1", ":", "2", "}">>,                                \* {1:2}
      <<"{", "[", "1", "]", "}">>,                                \* {[1]}
      <<"'", "T", "r", "u", "e", "'">>,                           \* 'True'
      <<"(", "a", ",", " ", "b", ")">>,                           \* (a, b)
      <<"[", "1", "+", "2", "j", "]">>,                           \* [1+2j]
      <<"[", "1", ",", " ", "a", "]">>,                           \* [1, a]
      <<"[", "1", "-", "2", "j", "]">>,                           \* [1-2j]
      <<"[", "N", "o", "n", "e", "]">>,                           \* [None]
      <<"[", "b", "'", "a", "'", "]">>,                           \* [b'a']
      <<"b", "'", "x", "y", "z", "'">>,                           \* b'xyz'
      <<"{", "a", ":", " ", "1", "}">>,                           \* {a: 1}
      <<"{", "a", ":", " ", "b", "}">>,                           \* {a: b}
      <<"[", "-", "1", "+", "2", "j", "]">>,                      \* [-1+2j]
      <<"[", "1", "j", "+", "2", "j", "]">>,                      \* [1j+2j]
      <<"[", "F", "a", "l", "s", "e", "]">>,                      \* [False]
      <<"a", "b", "c", " ", "d", "e", "f">>,                      \* abc def
      <<"{", "a", ":", " ", "-", "1", "}">>,                      \* {a: -1}
      <<"{", "x", "x", "x", ":", "1", "}">>,                      \* {xxx:1}
      <<"[", "\"", "b", "'", "x", "'", "\"", "]">>,               \* ["b'x'"]
      <<"[", "'", "T", "r", "u", "e", "'", "]">>,                 \* ['True']
      <<"[", "a", ",", " ", "[", "b", "]", "]">>,                 \* [a, [b]]
      <<"{", "[", "1", "]", ":", " ", "2", "}">>,                 \* {[1]: 2}
      <<"{", "a", ":", " ", "[", "b", "]", "}">>,                 \* {a: [b]}
      <<"(", "1", ",", " ", "2", ",", " ", "3", ")">>,            \* (1, 2, 3)
      <<"(", "1", ",", " ", "N", "o", "n", "e", ")">>,            \* (1, None)
      <<"[", "1", ",", " ", "2", ",", " ", "3", "]">>,            \* [1, 2, 3]
      <<"{", "1", ",", " ", "T", "r", "u", "e", "}">>,            \* {1, True}
      <<"{", "x", "x", "x", ":", "y", "y", "y", "}">>,            \* {xxx:yyy}
      <<"{", "(", "1", ",", "2", ")", ":", " ", "3", "}">>,       \* {(1,2): 3}
      <<"{", "[", "1", "]", ":", " ", "1", "+", "2", "}">>,       \* {[1]: 1+2}
      <<"{", "x", "x", "x", ":", "N", "o", "n", "e", "}">>,       \* {xxx:None}
      <<"[", "T", "r", "u", "e", ",", " ", "1", ",", " ", "0", "]">>,\* [True, 1, 0]
      <<"{", "1", ":", "2", ",", " ", "'", "1", "'", ":", "3", "}">>,\* {1:2, '1':3}
      <<"{", "a", ":", " ", "1", ",", " ", "b", ":", " ", "2", "}">>,\* {a: 1, b: 2}
      <<"{", "[", "1", "]", ":", " ", "2", ",", " ", "3", ":", " ", "1", "+", "2", "}">>,\* {[1]: 2, 3: 1+2}
      <<"[", "1", ",", " ", "2", ",", " ", "3", ",", " ", "4", ",", " ", "5", ".", "0", "]">>,\* [1, 2, 3, 4, 5.0]
      <<"(", "1", ",", " ", "2", ",", " ", "3", ",", " ", "4", ",", " ", "5", ",", " ", "6", ")">>\* (1, 2, 3, 4, 5, 6)
   }

AstParse(source) ==
   CASE source = <<"0">> ->   \* 0
           Expression(Constant(IntV(0)))
     [] source = <<"1">> ->   \* 1
           Expression(Constant(IntV(1)))
     [] source = <<"5">> ->   \* 5
           Expression(Constant(IntV(5)))
     [] source = <<"a">> ->   \* a
           Expression(Name(<<"a">>))
     [] source = <<"(", ")">> ->   \* ()
           Expression(TupleN(<<>>))
     [] source = <<"+", "5">> ->   \* +5
           Expression(UnaryOp("UAdd", Constant(IntV(5))))
     [] source = <<"-", "5">> ->   \* -5
           Expression(UnaryOp("USub", Constant(IntV(5))))
     [] source = <<"-", "a">> ->   \* -a
           Expression(UnaryOp("USub", Name(<<"a">>)))
     [] source = <<"2", "j">> ->   \* 2j
           Expression(Constant(ComplexV(0, 20)))
     [] source = <<"4", "2">> ->   \* 42
           Expression(Constant(IntV(42)))
     [] source = <<"[", "]">> ->   \* []
           Expression(ListN(<<>>))
     [] source = <<"{", "}">> ->   \* {}
           Expression(DictN(<<>>, <<>>))
     [] source = <<"'", "5", "'">> ->   \* '5'
           Expression(Constant(StrV(<<"5">>)))
     [] source = <<"-", "-", "5">> ->   \* --5
           Expression(UnaryOp("USub", UnaryOp("USub", Constant(IntV(5)))))
     [] source = <<"1", "+", "2">> ->   \* 1+2
           Expression(BinOp(Constant(IntV(1)), "Add", Constant(IntV(2))))
     [] source = <<"1", ".", "0">> ->   \* 1.0
           Expression(Constant(FloatV(10)))
     [] source = <<"1", ".", "5">> ->   \* 1.5
           Expression(Constant(FloatV(15)))
     [] source = <<"1", "<", "2">> ->   \* 1<2
           Expression(Compare(Constant(IntV(1)), "Lt", <<Constant(IntV(2))>>))
     [] source = <<"[", "5", "]">> ->   \* [5]
           Expression(ListN(<<Constant(IntV(5))>>))
     [] source = <<"[", "a", "]">> ->   \* [a]
           Expression(ListN(<<Name(<<"a">>)>>))
     [] source = <<"a", "-", "b">> ->   \* a-b
           Expression(BinOp(Name(<<"a">>), "Sub", Name(<<"b">>)))
     [] source = <<"a", ".", "b">> ->   \* a.b
           Expression(Attribute(Name(<<"a">>), <<"b">>))
     [] source = <<"a", "b", "c">> ->   \* abc
           Expression(Name(<<"a", "b", "c">>))
     [] source = <<"x", "y", "z">> ->   \* xyz
           Expression(Name(<<"x", "y", "z">>))
     [] source = <<"{", "a", "}">> ->   \* {a}
           Expression(SetN(<<Name(<<"a">>)>>))
     [] source = <<"'", " ", "5", "'">> ->   \* ' 5'
           Expression(Constant(StrV(<<" ", "5">>)))
     [] source = <<"(", "1", ",", ")">> ->   \* (1,)
           Expression(TupleN(<<Constant(IntV(1))>>))
     [] source = <<"1", "+", "2", "j">> ->   \* 1+2j
           Expression(BinOp(Constant(IntV(1)), "Add", Constant(ComplexV(0, 20))))
     [] source = <<"N", "o", "n", "e">> ->   \* None
           Expression(Constant(NoneV))
     [] source = <<"T", "R", "U", "E">> ->   \* TRUE
           Expression(Name(<<"T", "R", "U", "E">>))
     [] source = <<"T", "r", "u", "e">> ->   \* True
           Expression(Constant(BoolV(TRUE)))
     [] source = <<"[", "-", "5", "]">> ->   \* [-5]
           Expression(ListN(<<UnaryOp("USub", Constant(IntV(5)))>>))
     [] source = <<"[", "-", "a", "]">> ->   \* [-a]
           Expression(ListN(<<UnaryOp("USub", Name(<<"a">>))>>))
     [] source = <<"b", "'", "x", "'">> ->   \* b'x'
           Expression(Constant(BytesV(<<120>>)))
     [] source = <<"f", "(", "a", ")">> ->   \* f(a)
           Expression(Call(Name(<<"f">>), <<Name(<<"a">>)>>))
     [] source = <<"t", "r", "u", "e">> ->   \* true
           Expression(Name(<<"t", "r", "u", "e">>))
     [] source = <<"(", "1", ",", "2", ")">> ->   \* (1,2)
           Expression(TupleN(<<Constant(IntV(1)), Constant(IntV(2))>>))
     [] source = <<"-", "T", "r", "u", "e">> ->   \* -True
           Expression(UnaryOp("USub", Constant(BoolV(TRUE))))
     [] source = <<"F", "a", "l", "s", "e">> ->   \* False
           Expression(Constant(BoolV(FALSE)))
     [] source = <<"[", "'", "5", "'", "]">> ->   \* ['5']
           Expression(ListN(<<Constant(StrV(<<"5">>))>>))
     [] source = <<"[", "1", "+", "2", "]">> ->   \* [1+2]
           Expression(ListN(<<BinOp(Constant(IntV(1)), "Add", Constant(IntV(2)))>>))
     [] source = <<"[", "1", ",", "2", "]">> ->   \* [1,2]
           Expression(ListN(<<Constant(IntV(1)), Constant(IntV(2))>>))
     [] source = <<"[", "1", ".", "0", "]">> ->   \* [1.0]
           Expression(ListN(<<Constant(FloatV(10))>>))
     [] source = <<"[", "1", "<", "2", "]">> ->   \* [1<2]
           Expression(ListN(<<Compare(Constant(IntV(1)), "Lt", <<Constant(IntV(2))>>)>>))
     [] source = <<"[", "[", "1", "]", "]">> ->   \* [[1]]
           Expression(ListN(<<ListN(<<Constant(IntV(1))>>)>>))
     [] source = <<"[", "a", "-", "b", "]">> ->   \* [a-b]
           Expression(ListN(<<BinOp(Name(<<"a">>), "Sub", Name(<<"b">>))>>))
     [] source = <<"b", "\"", "x", "y", "\"">> ->   \* b"xy"
           Expression(Constant(BytesV(<<120, 121>>)))
     [] source = <<"n", "o", "t", " ", "a">> ->   \* not a
           Expression(UnaryOp("Not", Name(<<"a">>)))
     [] source = <<"s", "e", "t", "(", ")">> ->   \* set()
           Expression(Call(Name(<<"s", "e", "t">>), <<>>))
     [] source = <<"{", "1", ",", "2", "}">> ->   \* {1,2}
           Expression(SetN(<<Constant(IntV(1)), Constant(IntV(2))>>))
     [] source = <<"{", "1", ":", "2", "}">> ->   \* {1:2}
           Expression(DictN(<<Constant(IntV(1))>>, <<Constant(IntV(2))>>))
     [] source = <<"{", "[", "1", "]", "}">> ->   \* {[1]}
           Expression(SetN(<<ListN(<<Constant(IntV(1))>>)>>))
     [] source = <<"'", "T", "r", "u", "e", "'">> ->   \* 'True'
           Expression(Constant(StrV(<<"T", "r", "u", "e">>)))
     [] source = <<"(", "a", ",", " ", "b", ")">> ->   \* (a, b)
           Expression(TupleN(<<Name(<<"a">>), Name(<<"b">>)>>))
     [] source = <<"[", "1", "+", "2", "j", "]">> ->   \* [1+2j]
           Expression(ListN(<<BinOp(Constant(IntV(1)), "Add", Constant(ComplexV(0, 20)))>>))
     [] source = <<"[", "1", ",", " ", "a", "]">> ->   \* [1, a]
           Expression(ListN(<<Constant(IntV(1)), Name(<<"a">>)>>))
     [] source = <<"[", "1", "-", "2", "j", "]">> ->   \* [1-2j]
           Expression(ListN(<<BinOp(Constant(IntV(1)), "Sub", Constant(ComplexV(0, 20)))>>))
     [] source = <<"[", "N", "o", "n", "e", "]">> ->   \* [None]
           Expression(ListN(<<Constant(NoneV)>>))
     [] source = <<"[", "b", "'", "a", "'", "]">> ->   \* [b'a']
           Expression(ListN(<<Constant(BytesV(<<97>>))>>))
     [] source = <<"b", "'", "x", "y", "z", "'">> ->   \* b'xyz'
           Expression(Constant(BytesV(<<120, 121, 122>>)))
     [] source = <<"{", "a", ":", " ", "1", "}">> ->   \* {a: 1}
           Expression(DictN(<<Name(<<"a">>)>>, <<Constant(IntV(1))>>))
     [] source = <<"{", "a", ":", " ", "b", "}">> ->   \* {a: b}
           Expression(DictN(<<Name(<<"a">>)>>, <<Name(<<"b">>)>>))
     [] source = <<"[", "-", "1", "+", "2", "j", "]">> ->   \* [-1+2j]
           Expression(ListN(<<BinOp(UnaryOp("USub", Constant(IntV(1))), "Add", Constant(ComplexV(0, 20)))>>))
     [] source = <<"[", "1", "j", "+", "2", "j", "]">> ->   \* [1j+2j]
           Expression(ListN(<<BinOp(Constant(ComplexV(0, 10)), "Add", Constant(ComplexV(0, 20)))>>))
     [] source = <<"[", "F", "a", "l", "s", "e", "]">> ->   \* [False]
           Expression(ListN(<<Constant(BoolV(FALSE))>>))
     [] source = <<"{", "a", ":", " ", "-", "1", "}">> ->   \* {a: -1}
           Expression(DictN(<<Name(<<"a">>)>>, <<UnaryOp("USub", Constant(IntV(1)))>>))
     [] source = <<"{", "x", "x", "x", ":", "1", "}">> ->   \* {xxx:1}
           Expression(DictN(<<Name(<<"x", "x", "x">>)>>, <<Constant(IntV(1))>>))
     [] source = <<"[", "\"", "b", "'", "x", "'", "\"", "]">> ->   \* ["b'x'"]
           Expression(ListN(<<Constant(StrV(<<"b", "'", "x", "'">>))>>))
     [] source = <<"[", "'", "T", "r", "u", "e", "'", "]">> ->   \* ['True']
           Expression(ListN(<<Constant(StrV(<<"T", "r", "u", "e">>))>>))
     [] source = <<"[", "a", ",", " ", "[", "b", "]", "]">> ->   \* [a, [b]]
           Expression(ListN(<<Name(<<"a">>), ListN(<<Name(<<"b">>)>>)>>))
     [] source = <<"{", "[", "1", "]", ":", " ", "2", "}">> ->   \* {[1]: 2}
           Expression(DictN(<<ListN(<<Constant(IntV(1))>>)>>, <<Constant(IntV(2))>>))
     [] source = <<"{", "a", ":", " ", "[", "b", "]", "}">> ->   \* {a: [b]}
           Expression(DictN(<<Name(<<"a">>)>>, <<ListN(<<Name(<<"b">>)>>)>>))
     [] source = <<"(", "1", ",", " ", "2", ",", " ", "3", ")">> ->   \* (1, 2, 3)
           Expression(TupleN(<<Constant(IntV(1)), Constant(IntV(2)), Constant(IntV(3))>>))
     [] source = <<"(", "1", ",", " ", "N", "o", "n", "e", ")">> ->   \* (1, None)
           Expression(TupleN(<<Constant(IntV(1)), Constant(NoneV)>>))
     [] source = <<"[", "1", ",", " ", "2", ",", " ", "3", "]">> ->   \* [1, 2, 3]
           Expression(ListN(<<Constant(IntV(1)), Constant(IntV(2)), Constant(IntV(3))>>))
     [] source = <<"{", "1", ",", " ", "T", "r", "u", "e", "}">> ->   \* {1, True}
           Expression(SetN(<<Constant(IntV(1)), Constant(BoolV(TRUE))>>))
     [] source = <<"{", "x", "x", "x", ":", "y", "y", "y", "}">> ->   \* {xxx:yyy}
           Expression(DictN(<<Name(<<"x", "x", "x">>)>>, <<Name(<<"y", "y", "y">>)>>))
     [] source = <<"{", "(", "1", ",", "2", ")", ":", " ", "3", "}">> ->   \* {(1,2): 3}
           Expression(DictN(<<TupleN(<<Constant(IntV(1)), Constant(IntV(2))>>)>>, <<Constant(IntV(3))>>))
     [] source = <<"{", "[", "1", "]", ":", " ", "1", "+", "2", "}">> ->   \* {[1]: 1+2}
           Expression(DictN(<<ListN(<<Constant(IntV(1))>>)>>, <<BinOp(Constant(IntV(1)), "Add", Constant(IntV(2)))>>))
     [] source = <<"{", "x", "x", "x", ":", "N", "o", "n", "e", "}">> ->   \* {xxx:None}
           Expression(DictN(<<Name(<<"x", "x", "x">>)>>, <<Constant(NoneV)>>))
     [] source = <<"[", "T", "r", "u", "e", ",", " ", "1", ",", " ", "0", "]">> ->   \* [True, 1, 0]
           Expression(ListN(<<Constant(BoolV(TRUE)), Constant(IntV(1)), Constant(IntV(0))>>))
     [] source = <<"{", "1", ":", "2", ",", " ", "'", "1", "'", ":", "3", "}">> ->   \* {1:2, '1':3}
           Expression(DictN(<<Constant(IntV(1)), Constant(StrV(<<"1">>))>>, <<Constant(IntV(2)), Constant(IntV(3))>>))
     [] source = <<"{", "a", ":", " ", "1", ",", " ", "b", ":", " ", "2", "}">> ->   \* {a: 1, b: 2}
           Expression(DictN(<<Name(<<"a">>), Name(<<"b">>)>>, <<Constant(IntV(1)), Constant(IntV(2))>>))
     [] source = <<"{", "[", "1", "]", ":", " ", "2", ",", " ", "3", ":", " ", "1", "+", "2", "}">> ->   \* {[1]: 2, 3: 1+2}
           Expression(DictN(<<ListN(<<Constant(IntV(1))>>), Constant(IntV(3))>>, <<Constant(IntV(2)), BinOp(Constant(IntV(1)), "Add", Constant(IntV(2)))>>))
     [] source = <<"[", "1", ",", " ", "2", ",", " ", "3", ",", " ", "4", ",", " ", "5", ".", "0", "]">> ->   \* [1, 2, 3, 4, 5.0]
           Expression(ListN(<<Constant(IntV(1)), Constant(IntV(2)), Constant(IntV(3)), Constant(IntV(4)), Constant(FloatV(50))>>))
     [] source = <<"(", "1", ",", " ", "2", ",", " ", "3", ",", " ", "4", ",", " ", "5", ",", " ", "6", ")">> ->   \* (1, 2, 3, 4, 5, 6)
           Expression(TupleN(<<Constant(IntV(1)), Constant(IntV(2)), Constant(IntV(3)), Constant(IntV(4)), Constant(IntV(5)), Constant(IntV(6))>>))
     [] source \in {<<>>, <<"(">>, <<"b", "'">>, <<"[", "1", ",">>, <<"a", "b", "c", " ", "d", "e", "f">>} ->
           SyntaxErrorNode
     [] OTHER -> UnmodelledNode

----------------------------------------------------------------------------
(* _LiteralEval: bare words become strings, then ast.literal_eval.         *)

ReservedNames ==
   {<<"T", "r", "u", "e">>, <<"F", "a", "l", "s", "e">>, <<"N", "o", "n", "e">>}

_Replacement(node) ==
   IF node.id \in ReservedNames THEN node ELSE Constant(StrV(node.id))

(* a rewriting pass that leaves list-valued fields alone *)
ReplaceInList_Skipped(children) == children

(* parser.py 276-279: a Name held in a list-valued field *)
ReplaceInList(children) ==
   [i \in DOMAIN children |->
      IF children[i].k = "Name" THEN _Replacement(children[i]) ELSE children[i]]

(* parser.py 281-283: a Name held in a node-valued field *)
ReplaceInField(child) == IF child.k = "Name" THEN _Replacement(child) ELSE child

(* parser.py 274-283: for every node of the tree, rewrite its fields.  The *)
(* walk reaches every node once, and rewriting a node's fields touches no  *)
(* other node, so the walk is a recursion over the tree.                   *)
RECURSIVE ReplaceNames(_)
ReplaceNames(node) ==
   LET kids == ReplaceInList(node.kids)
       vals == ReplaceInList(node.vals)
       subs == [i \in DOMAIN node.subs |-> ReplaceInField(node.subs[i])]
   IN  [node EXCEPT !.kids = [i \in DOMAIN kids |-> ReplaceNames(kids[i])],
                    !.vals = [i \in DOMAIN vals |-> ReplaceNames(vals[i])],
                    !.subs = [i \in DOMAIN subs |-> ReplaceNames(subs[i])]]

Malformed == Raise("ValueError", "Malformed")

Negate(v) == [v EXCEPT !.n = 0 - v.n, !.m = 0 - v.m]

(* ast.literal_eval's _convert_num, _convert_signed_num and _convert      *)
(* (CPython 3.11), which parser.py 288 calls.  The sign of a zero real     *)
(* part is not kept.                                                       *)
ConvertNum(node) ==
   IF node.k = "Constant" /\ node.val.ty \in {"int", "float", "complex"}
   THEN Ok(node.val)
   ELSE Malformed

ConvertSignedNum(node) ==
   IF node.k = "UnaryOp" /\ node.op \in {"UAdd", "USub"}
   THEN LET operand == ConvertNum(node.subs[1])
        IN  IF ~IsOk(operand) THEN operand
            ELSE IF node.op = "UAdd" THEN operand
            ELSE Ok(Negate(operand.val))
   ELSE ConvertNum(node)

RECURSIVE Convert(_)
RECURSIVE ConvertEach(_, _)
RECURSIVE ConvertSet(_, _)
RECURSIVE ConvertDict(_, _, _)

(* list(map(_convert, elts)) *)
ConvertEach(acc, nodes) ==
   IF nodes = <<>> THEN Ok(ListV(acc))
   ELSE LET o == Convert(Head(nodes))
        IN  IF ~IsOk(o) THEN o ELSE ConvertEach(Append(acc, o.val), Tail(nodes))

(* set(map(_convert, elts)): each member is hashed as it is produced *)
ConvertSet(acc, nodes) ==
   IF nodes = <<>> THEN Ok(SetV(acc))
   ELSE LET o == Convert(Head(nodes))
        IN  IF ~IsOk(o) THEN o
            ELSE IF ~Hashable(o.val) THEN Raise("TypeError", "Unhashable")
            ELSE ConvertSet(SetAdd(acc, o.val), Tail(nodes))

(* dict(zip(map(_convert, keys), map(_convert, values))): a pair is        *)
(* converted, key first, and then inserted                                 *)
ConvertDict(d, keys, values) ==
   IF keys = <<>> THEN Ok(d)
   ELSE LET k == Convert(Head(keys))
            v == Convert(Head(values))
        IN  IF ~IsOk(k) THEN k
            ELSE IF ~IsOk(v) THEN v
            ELSE IF ~Hashable(k.val) THEN Raise("TypeError", "Unhashable")
            ELSE ConvertDict(DictPut(d, k.val, v.val), Tail(keys), Tail(values))

Convert(node) ==
   CASE node.k = "Constant" -> Ok(node.val)
     [] node.k = "Tuple" ->
           LET o == ConvertEach(<<>>, node.kids)
           IN  IF IsOk(o) THEN Ok(TupleV(o.val.elts)) ELSE o
     [] node.k = "List" -> ConvertEach(<<>>, node.kids)
     [] node.k = "Set" -> ConvertSet(<<>>, node.kids)
     [] /\ node.k = "Call"
        /\ node.subs[1].k = "Name" /\ node.subs[1].id = <<"s", "e", "t">>
        /\ node.kids = <<>> -> Ok(SetV(<<>>))
     [] node.k = "Dict" ->
           IF Len(node.kids) # Len(node.vals) THEN Malformed
           ELSE ConvertDict(DictV(<<>>, <<>>), node.kids, node.vals)
     [] node.k = "BinOp" /\ node.op \in {"Add", "Sub"} ->
           LET left == ConvertSignedNum(node.subs[1])
               right == ConvertNum(node.subs[2])
           IN  IF ~IsOk(left) THEN left
               ELSE IF ~IsOk(right) THEN right
               ELSE IF left.val.ty \in {"int", "float"} /\ right.val.ty = "complex"
               THEN IF node.op = "Add"
                    THEN Ok(ComplexV(Re10(left.val) + right.val.n, right.val.m))
                    ELSE Ok(ComplexV(Re10(left.val) - right.val.n, 0 - right.val.m))
               ELSE ConvertSignedNum(node)
     [] OTHER -> ConvertSignedNum(node)

(* ast.literal_eval(root), root an Expression *)
LiteralEvalTree(root) == Convert(root.subs[1])

(* a parser without the check of the root *)
RootIsBinOp_Unchecked(root) == FALSE

(* parser.py 271 *)
RootIsBinOp(root) == root.subs[1].k = "BinOp"

(* parser.py 271-288, given what ast.parse returned or raised *)
EvalParsed(root) ==
   IF root.k = "Unmodelled" THEN Raise("Unmodelled", "")
   ELSE IF root.k = "SyntaxError" THEN Raise("SyntaxError", "SyntaxInvalid")
   ELSE IF RootIsBinOp(root) THEN Raise("ValueError", "RootBinOp")
   ELSE LiteralEvalTree(ReplaceNames(root))

(* parser.py 251-288 *)
_LiteralEval(value) == EvalParsed(AstParse(value))

(* parser.py 246: the exception classes DefaultParseValue catches *)
CaughtByDefault == {"SyntaxError", "ValueError"}

(* parser.py 246-248: a caught exception yields the token itself *)
OrToken(o, value) == IF o.st \in CaughtByDefault THEN Ok(StrV(value)) ELSE o

(* parser.py 231-248 *)
DefaultParseValue(value) == OrToken(_LiteralEval(value), value)

----------------------------------------------------------------------------
(* Type annotations.                                                       *)
(*   o        a class name, or for a generic alias its __origin__          *)
(*   args     __args__                                                     *)
(*   alias    "__origin__" in dir(t): a generic alias (typing.Union[...],  *)
(*            typing.List[int], int | None, bare typing.Dict)              *)
(*   hasArgs  "__args__" in dir(t): false for bare typing.List, .Dict, ... *)

Ty(o, args, alias, hasArgs) == [o |-> o, args |-> args, alias |-> alias, hasArgs |-> hasArgs]

Prim(name) == Ty(name, <<>>, FALSE, FALSE)

IntT == Prim("int")
StrT == Prim("str")
BoolT == Prim("bool")
BytesT == Prim("bytes")
NoneT == Prim("NoneType")
(* typing.Any *)
AnyT == Prim("Any")
(* the class typing.TypeVar used as an annotation *)
TypeVarClassT == Prim("TypeVarClass")
(* T = TypeVar("T") *)
TypeVarT == Prim("TypeVar")
(* the ... of Tuple[int, ...] *)
EllipsisT == Prim("Ellipsis")

UnionT(args) == Ty("Union", args, TRUE, TRUE)
OptionalT(x) == UnionT(<<x, NoneT>>)
ListT(x) == Ty("list", <<x>>, TRUE, TRUE)
SetT(x) == Ty("set", <<x>>, TRUE, TRUE)
TupleT(args) == Ty("tuple", args, TRUE, TRUE)
DictT(k, v) == Ty("dict", <<k, v>>, TRUE, TRUE)
FrozenSetT(x) == Ty("frozenset", <<x>>, TRUE, TRUE)
Bare(o) == Ty(o, <<>>, TRUE, FALSE)

IsGenericAlias(t) == t.alias

(* parser.py 77-92.  A plain class has no __origin__: line 86 raises. *)
_DeGenericAlias(t) ==
   IF ~IsGenericAlias(t) THEN [st |-> "AttributeError", origin |-> t.o, args |-> <<>>]
   ELSE IF ~t.hasArgs THEN [st |-> "ok", origin |-> t.o, args |-> <<AnyT>>]
   ELSE [st |-> "ok", origin |-> t.o, args |-> t.args]

HasNoneType(args) == \E i \in DOMAIN args : args[i] = NoneT

----------------------------------------------------------------------------
(* The registered converters (TypeToParser) and the constructors that      *)
(* TypeToParser.get(t, t) falls back to.                                   *)

TrueSpelling == <<"T", "r", "u", "e">>

(* parser.py 216: lambda value: value == "True" or value == True *)
BoolParser(value) == Ok(BoolV(PyEq(value, StrV(TrueSpelling)) \/ PyEq(value, BoolV(TRUE))))

(* str.encode("utf8") of ASCII text *)
EncodeUtf8(s) == [i \in DOMAIN s |-> Ord(s[i])]

(* int.to_bytes(length, "big") of a non-negative int *)
RECURSIVE BigEndian(_, _)
BigEndian(n, length) ==
   IF length = 0 THEN <<>> ELSE Append(BigEndian(n \div 256, length - 1), n % 256)

BytesWidth == 8

(* parser.py 203-210, value a bytes-like source *)
BytesFrom(value) ==
   CASE value.ty = "str" -> Ok(BytesV(EncodeUtf8(value.s)))
     [] value.ty = "bytes" -> Ok(value)
     [] value.ty \in {"int", "bool"} ->
           IF value.n < 0 THEN Raise("OverflowError", "NegativeToBytes")
           ELSE Ok(BytesV(BigEndian(value.n, BytesWidth)))
     [] OTHER -> Raise("ValueError", "UnsupportedType")

BytesPrefixes == {<<"b", "\"">>, <<"b", "'">>}

(* parser.py 202-203: an exception of DefaultParseValue leaves the function *)
BytesFromSource(source) == IF ~IsOk(source) THEN source ELSE BytesFrom(source.val)

(* parser.py 200-210.  Line 201 calls value.startswith with a str prefix:  *)
(* only a str has that method with that argument type.                     *)
_BytesParser(value) ==
   IF value.ty = "bytes" THEN Raise("TypeError", "StartswithArgument")
   ELSE IF value.ty # "str" THEN Raise("AttributeError", "NoStartswith")
   ELSE BytesFromSource(IF \E p \in BytesPrefixes : StartsWith(value.s, p)
                        THEN DefaultParseValue(value.s)
                        ELSE Ok(value))

(* TypeToParser.get(t, t)(value) for a class t *)
CallType(t, value) ==
   CASE t = IntT -> PyInt(value)
     [] t = StrT -> PyStr(value)
     [] t = BoolT -> BoolParser(value)
     [] t = BytesT -> _BytesParser(value)
     [] t = NoneT -> Raise("TypeError", "NoneTypeCall")
     [] t = AnyT -> Raise("TypeError", "AnyCall")
     [] t = TypeVarT -> Raise("TypeError", "TypeVarCall")
     [] t = EllipsisT -> Raise("TypeError", "EllipsisCall")
     [] OTHER -> Raise("Unmodelled", "")

----------------------------------------------------------------------------
(* The typed converter.                                                    *)

NoneSpelling == <<"N", "o", "n", "e">>

(* a Sum without the absence shortcut *)
AbsenceShortcut_Never(value, args) == FALSE

(* parser.py 108 (origin is never Optional: Optional[X] is Union[X, None]) *)
AbsenceShortcut(value, args) == value = NoneSpelling /\ HasNoneType(args)

ContainerOrigins == {"dict", "list", "set", "tuple"}

(* parser.py 164 *)
IsPassThrough(t) == t = TypeVarClassT \/ t = TypeVarT \/ t = AnyT

(* parser.py 175 *)
IsPassThroughKey(t) == t = TypeVarClassT \/ t = TypeVarT

(* parser.py 182 *)
IsPassThroughValue(t) == t = TypeVarClassT

(* parser.py 119, 143: the exception class a Sum catches from a variant *)
CaughtBySum == {"ValueError"}

Tried(o, tried) == [o EXCEPT !.tried = tried]

RECURSIVE ParseComplexValue(_, _)
RECURSIVE TryVariants(_, _, _, _)
RECURSIVE _ParseConvert(_, _)
RECURSIVE ConvertVariants(_, _, _, _)
RECURSIVE ConvertItems(_, _, _)
RECURSIVE ConvertPairs(_, _, _, _, _)

(* parser.py 119-120: a caught exception moves on to the next variant *)
OrNextVariant(o, value, args, i, tried) ==
   IF o.st \in CaughtBySum
   THEN TryVariants(value, args, i + 1, Append(tried, i))
   ELSE Tried(o, Append(tried, i))

(* parser.py 111-120, then 124 *)
TryVariants(value, args, i, tried) ==
   IF i > Len(args) THEN Tried(Raise("ValueError", "NoVariantMatched"), tried)
   ELSE IF ~IsGenericAlias(args[i]) /\ args[i] = NoneT
   THEN TryVariants(value, args, i + 1, tried)
   ELSE OrNextVariant(IF IsGenericAlias(args[i])
                      THEN ParseComplexValue(value, args[i])
                      ELSE CallType(args[i], StrV(value)),
                      value, args, i, tried)

(* parser.py 122: an exception of DefaultParseValue leaves the function *)
ConvertParsed(parsed, t) ==
   IF ~IsOk(parsed) THEN parsed ELSE _ParseConvert(parsed.val, t)

(* parser.py 105-124; value is the token *)
ParseComplexValue(value, t) ==
   LET g == _DeGenericAlias(t)
   IN  IF g.st # "ok" THEN Raise(g.st, "NoOrigin")
       ELSE IF g.origin = "Union" THEN
          IF AbsenceShortcut(value, g.args) THEN Ok(NoneV)
          ELSE TryVariants(value, g.args, 1, <<>>)
       ELSE IF g.origin \in ContainerOrigins THEN
          ConvertParsed(DefaultParseValue(value), t)
       ELSE Raise("ValueError", "UnsupportedType")

(* parser.py 143-144 *)
OrNextConversion(o, parsed, args, i, tried) ==
   IF o.st \in CaughtBySum
   THEN ConvertVariants(parsed, args, i + 1, Append(tried, i))
   ELSE Tried(o, Append(tried, i))

(* parser.py 133-145 *)
ConvertVariants(parsed, args, i, tried) ==
   IF i > Len(args) THEN Tried(Raise("ValueError", "NoVariantMatched"), tried)
   ELSE IF args[i] = NoneT THEN ConvertVariants(parsed, args, i + 1, tried)
   ELSE OrNextConversion(IF IsGenericAlias(args[i])
                         THEN _ParseConvert(parsed, args[i])
                         ELSE CallType(args[i], parsed),
                         parsed, args, i, tried)

(* parser.py 159-167, for an element type other than NoneType *)
ConvertItem(each_type, each_value) ==
   IF IsGenericAlias(each_type) THEN Tried(_ParseConvert(each_value, each_type), <<>>)
   ELSE IF IsPassThrough(each_type) THEN Ok(each_value)
   ELSE CallType(each_type, each_value)

(* res.append(...), and on to the next pair of zip(args, parsed) *)
AppendItem(o, res, args, items) ==
   IF ~IsOk(o) THEN o
   ELSE ConvertItems(Append(res, o.val), Tail(args), Tail(items))

(* parser.py 158-167: zip(args, parsed); res is the list built so far *)
ConvertItems(res, args, items) ==
   IF args = <<>> \/ items = <<>> THEN Ok(ListV(res))
   ELSE IF ~IsGenericAlias(Head(args)) /\ Head(args) = NoneT THEN
      IF Head(items) # NoneV THEN Raise("ValueError", "NotNone")
      ELSE ConvertItems(res, Tail(args), Tail(items))
   ELSE AppendItem(ConvertItem(Head(args), Head(items)), res, args, items)

(* parser.py 175-180 *)
ConvertKey(key_t, k) ==
   IF IsPassThroughKey(key_t) THEN Ok(k)
   ELSE IF IsGenericAlias(key_t) THEN Tried(_ParseConvert(k, key_t), <<>>)
   ELSE CallType(key_t, k)

(* parser.py 182-187 *)
ConvertValue(value_t, v) ==
   IF IsPassThroughValue(value_t) THEN Ok(v)
   ELSE IF IsGenericAlias(value_t) THEN Tried(_ParseConvert(v, value_t), <<>>)
   ELSE CallType(value_t, v)

(* parser.py 189: res[res_key] = res_value, and on to the next item *)
PutPair(res_key, res_value, res, key_t, value_t, keys, values) ==
   IF ~IsOk(res_key) THEN res_key
   ELSE IF ~IsOk(res_value) THEN res_value
   ELSE IF ~Hashable(res_key.val) THEN Raise("TypeError", "Unhashable")
   ELSE ConvertPairs(DictPut(res, res_key.val, res_value.val),
                     key_t, value_t, Tail(keys), Tail(values))

(* parser.py 174-189: parsed.items(); res is the dict built so far *)
ConvertPairs(res, key_t, value_t, keys, values) ==
   IF keys = <<>> THEN Ok(res)
   ELSE PutPair(ConvertKey(key_t, Head(keys)), ConvertValue(value_t, Head(values)),
                res, key_t, value_t, keys, values)

(* args *= len(parsed) *)
Repeat(args, count) == Flatten([i \in 1..count |-> args])

(* parser.py 168: res_t(res) *)
Collect(origin, res) ==
   IF ~IsOk(res) THEN res
   ELSE IF origin = "tuple" THEN Ok(TupleV(res.val.elts))
   ELSE IF origin = "set" THEN SetFrom(<<>>, res.val.elts)
   ELSE res

(* parser.py 155-168, for a parsed value that has a length *)
ConvertContainer(origin, args, items) ==
   IF Len(items) # Len(args) THEN Raise("ValueError", "ArityMismatch")
   ELSE Collect(origin, ConvertItems(<<>>, args, items))

(* parser.py 127-197; parsed is a literal value *)
_ParseConvert(parsed, t) ==
   LET g == _DeGenericAlias(t)
   IN  IF g.st # "ok" THEN Raise(g.st, "NoOrigin")
       ELSE IF g.origin = "Union" THEN
          IF HasNoneType(g.args) /\ parsed = NoneV THEN Ok(NoneV)
          ELSE ConvertVariants(parsed, g.args, 1, <<>>)
       ELSE IF g.origin \in {"tuple", "list", "set"} THEN
          IF ~HasLen(parsed) THEN Raise("TypeError", "NoLen")
          ELSE ConvertContainer(g.origin,
                                IF g.origin = "tuple" THEN g.args
                                ELSE Repeat(g.args, Len(Items(parsed))),
                                Items(parsed))
       ELSE IF g.origin = "dict" THEN
          IF Len(g.args) # 2 THEN Raise("ValueError", "Unpack")
          ELSE IF parsed.ty # "dict" THEN Raise("ValueError", "ShapeMismatch")
          ELSE ConvertPairs(DictV(<<>>, <<>>), g.args[1], g.args[2], parsed.elts, parsed.vals)
       ELSE Raise("ValueError", "UnsupportedType")

(* parser.py 221-228: SpecTypeParseValueGen(t)(value) *)
SpecTypeParseValueGen(t, value) ==
   IF IsGenericAlias(t) THEN ParseComplexValue(value, t) ELSE CallType(t, StrV(value))

----------------------------------------------------------------------------
(* The timestamp converter (ParseTime) and datetime.strptime.              *)

DateTimeV(year, month, day, hour, minute, second) ==
   Val("datetime", 0, 0, <<>>, <<year, month, day, hour, minute, second>>, <<>>, <<>>)

(* the digits lo .. hi, a character class *)
D(lo, hi) == {DigitChar(n) : n \in lo..hi}

Directives == {"%Y", "%m", "%d", "%H", "%M", "%S"}

(* _strptime.TimeRE: the regex of a directive, its alternatives in order,  *)
(* each a sequence of character classes                                    *)
DirectiveRegex(d) ==
   CASE d = "%Y" -> << <<D(0, 9), D(0, 9), D(0, 9), D(0, 9)>> >>
     [] d = "%m" -> << <<{"1"}, D(0, 2)>>, <<{"0"}, D(1, 9)>>, <<D(1, 9)>> >>
     [] d = "%d" -> << <<{"3"}, D(0, 1)>>, <<D(1, 2), D(0, 9)>>, <<{"0"}, D(1, 9)>>,
                       <<D(1, 9)>>, <<{" "}, D(1, 9)>> >>
     [] d = "%H" -> << <<{"2"}, D(0, 3)>>, <<D(0, 1), D(0, 9)>>, <<D(0, 9)>> >>
     [] d = "%M" -> << <<D(0, 5), D(0, 9)>>, <<D(0, 9)>> >>
     [] d = "%S" -> << <<{"6"}, D(0, 1)>>, <<D(0, 5), D(0, 9)>>, <<D(0, 9)>> >>

(* the alternative matches the characters of s from pos on *)
MatchesAt(alternative, s, pos) ==
   /\ pos + Len(alternative) - 1 <= Len(s)
   /\ \A i \in DOMAIN alternative : s[pos + i - 1] \in alternative[i]

(* the number of spaces of s from pos on *)
RECURSIVE SpaceRun(_, _)
SpaceRun(s, pos) ==
   IF pos <= Len(s) /\ s[pos] = " " THEN 1 + SpaceRun(s, pos + 1) ELSE 0

(* The lengths a format item can match at pos, in the order the regex      *)
(* engine tries them: the alternatives of a directive; for white space in  *)
(* the format, \s+, the longest run first; for another character, itself.  *)
MatchLengths(item, s, pos) ==
   IF item \in Directives THEN
      LET matching == SelectSeq(DirectiveRegex(item), LAMBDA a : MatchesAt(a, s, pos))
      IN  [j \in DOMAIN matching |-> Len(matching[j])]
   ELSE IF item = " " THEN [j \in 1..SpaceRun(s, pos) |-> SpaceRun(s, pos) - j + 1]
   ELSE IF pos <= Len(s) /\ s[pos] = item THEN <<1>>
   ELSE <<>>

NoMatch == [ok |-> FALSE, end |-> 0, found |-> <<>>]

RECURSIVE MatchFrom(_, _, _, _)
RECURSIVE TryLengths(_, _, _, _, _)

(* the rest of the format matched after this length, or the regex engine   *)
(* backtracks to the next one                                              *)
OrBacktrack(rest, fmt, k, s, pos, lengths) ==
   IF rest.ok
   THEN [rest EXCEPT !.found = <<SubSeq(s, pos, pos + Head(lengths) - 1)>> \o @]
   ELSE TryLengths(fmt, k, s, pos, Tail(lengths))

TryLengths(fmt, k, s, pos, lengths) ==
   IF lengths = <<>> THEN NoMatch
   ELSE OrBacktrack(MatchFrom(fmt, k + 1, s, pos + Head(lengths)), fmt, k, s, pos, lengths)

(* format_regex.match(data_string): the first match of items k.. of the    *)
(* format at pos; found[j] is the text matched by item k + j - 1           *)
MatchFrom(fmt, k, s, pos) ==
   IF k > Len(fmt) THEN [ok |-> TRUE, end |-> pos, found |-> <<>>]
   ELSE TryLengths(fmt, k, s, pos, MatchLengths(fmt[k], s, pos))

(* int(found_dict[d]); 0 for a directive the format does not have *)
FieldOf(fmt, found, d) ==
   IF \E k \in DOMAIN fmt : fmt[k] = d
   THEN DigitsValue(0, Strip(found[CHOOSE k \in DOMAIN fmt : fmt[k] = d]))
   ELSE 0

IsLeap(year) == year % 4 = 0 /\ (year % 100 # 0 \/ year % 400 = 0)

DaysInMonth(year, month) ==
   IF month = 2 THEN (IF IsLeap(year) THEN 29 ELSE 28)
   ELSE IF month \in {4, 6, 9, 11} THEN 30 ELSE 31

(* datetime(year, month, day, hour, minute, second) *)
NewDateTime(year, month, day, hour, minute, second) ==
   IF /\ year >= 1 /\ month \in 1..12 /\ day \in 1..DaysInMonth(year, month)
      /\ hour <= 23 /\ minute <= 59 /\ second <= 59
   THEN Ok(DateTimeV(year, month, day, hour, minute, second))
   ELSE Raise("ValueError", "OutOfRange")

(* _strptime after the regex: all of the string must have matched *)
FromMatch(m, fmt, s) ==
   IF ~m.ok THEN Raise("ValueError", "NoFormatMatch")
   ELSE IF m.end # Len(s) + 1 THEN Raise("ValueError", "UnconvertedData")
   ELSE NewDateTime(FieldOf(fmt, m.found, "%Y"), FieldOf(fmt, m.found, "%m"),
                    FieldOf(fmt, m.found, "%d"), FieldOf(fmt, m.found, "%H"),
                    FieldOf(fmt, m.found, "%M"), FieldOf(fmt, m.found, "%S"))

(* datetime.strptime(value, format) *)
StrpTime(value, fmt) ==
   IF value.ty # "str" THEN Raise("TypeError", "StrptimeArgument")
   ELSE FromMatch(MatchFrom(fmt, 1, value.s, 1), fmt, value.s)

(* parser.py 62-69 *)
TimeFormats ==
   << <<"%Y", "-", "%m", "-", "%d", "-", "%H", ":", "%M", ":", "%S">>,
      <<"%Y", "-", "%m", "-", "%d", " ", "%H", ":", "%M", ":", "%S">>,
      <<"%Y", "/", "%m", "/", "%d", " ", "%H", ":", "%M", ":", "%S">>,
      <<"%Y", "%m", "%d", "%H", "%M", "%S">>,
      <<"%Y", "/", "%m", "/", "%d">>,
      <<"%Y", "-", "%m", "-", "%d">> >>

(* a loop that lets the exceptions of strptime through *)
CaughtByParseTime_Nothing == {}

(* parser.py 72 *)
CaughtByParseTime == {"ValueError", "TypeError"}

RECURSIVE TryFormats(_, _)

(* parser.py 70-73; tried is the position of the format that matched *)
OrNextFormat(o, value, i) ==
   IF o.st \in CaughtByParseTime THEN TryFormats(value, i + 1) ELSE Tried(o, <<i>>)

(* parser.py 62-74 *)
TryFormats(value, i) ==
   IF i > Len(TimeFormats) THEN Raise("ValueError", "UnparsableTimestamp")
   ELSE OrNextFormat(StrpTime(value, TimeFormats[i]), value, i)

(* parser.py 61-74 *)
ParseTime(value) == TryFormats(value, 1)

----------------------------------------------------------------------------
(* The calls of the model.                                                 *)

(* Tokens of at most MaxTokenLen characters are passed to the parser. *)
MaxTokenLen == 16

Tokens == {t \in TokenCatalogue : Len(t) <= MaxTokenLen}

RECURSIVE TypeSize(_)
RECURSIVE SumSizes(_)
SumSizes(ts) == IF ts = <<>> THEN 0 ELSE TypeSize(Head(ts)) + SumSizes(Tail(ts))
TypeSize(t) == 1 + SumSizes(t.args)

(* Annotations of at most MaxTypeSize nodes are passed to the parser. *)
MaxTypeSize == 7

ClassCatalogue == {IntT, StrT, BoolT, BytesT, NoneT, AnyT, TypeVarT}

AliasCatalogue ==
   {
      UnionT(<<IntT, StrT>>), UnionT(<<StrT, IntT>>), UnionT(<<IntT, BoolT>>),
      UnionT(<<BoolT, StrT>>), UnionT(<<BytesT, IntT>>),
      OptionalT(IntT), OptionalT(StrT), UnionT(<<NoneT, IntT>>), UnionT(<<NoneT, StrT>>),
      UnionT(<<IntT, NoneT, StrT>>),
      UnionT(<<ListT(IntT), StrT>>), UnionT(<<ListT(StrT), IntT>>),
      UnionT(<<IntT, ListT(IntT)>>), UnionT(<<ListT(BytesT), StrT>>),
      UnionT(<<TupleT(<<IntT, StrT>>), StrT>>), UnionT(<<TupleT(<<IntT, EllipsisT>>), StrT>>),
      UnionT(<<DictT(StrT, OptionalT(IntT)), StrT>>), UnionT(<<Bare("dict"), StrT>>),
      UnionT(<<FrozenSetT(IntT), StrT>>), UnionT(<<SetT(IntT), NoneT>>),
      ListT(IntT), ListT(StrT), ListT(BoolT), ListT(BytesT), ListT(AnyT), ListT(TypeVarT),
      ListT(NoneT), Bare("list"), ListT(ListT(IntT)), ListT(FrozenSetT(IntT)),
      ListT(UnionT(<<IntT, StrT>>)), ListT(UnionT(<<StrT, IntT>>)), ListT(OptionalT(IntT)),
      ListT(UnionT(<<ListT(IntT), StrT>>)), ListT(UnionT(<<BoolT, NoneT>>)),
      ListT(UnionT(<<DictT(StrT, OptionalT(IntT)), StrT>>)),
      SetT(IntT), SetT(StrT), SetT(AnyT), SetT(BoolT), Bare("set"),
      TupleT(<<>>), TupleT(<<IntT>>), TupleT(<<IntT, StrT>>), TupleT(<<IntT, IntT, IntT>>),
      TupleT(<<IntT, EllipsisT>>), TupleT(<<StrT, EllipsisT>>), TupleT(<<IntT, NoneT>>),
      TupleT(<<IntT, AnyT>>), TupleT(<<IntT, OptionalT(StrT)>>), Bare("tuple"),
      DictT(StrT, IntT), DictT(StrT, StrT), DictT(IntT, IntT), DictT(StrT, AnyT),
      DictT(AnyT, IntT), DictT(AnyT, AnyT), DictT(TypeVarT, TypeVarT), DictT(TypeVarT, IntT),
      DictT(StrT, TypeVarT), DictT(TypeVarClassT, TypeVarClassT), DictT(StrT, NoneT),
      DictT(StrT, OptionalT(IntT)), DictT(StrT, ListT(StrT)), DictT(ListT(IntT), IntT),
      DictT(StrT, BoolT), DictT(StrT, BytesT), Bare("dict"),
      FrozenSetT(IntT)
   }

Classes == ClassCatalogue

Aliases == {t \in AliasCatalogue : TypeSize(t) <= MaxTypeSize}

(* The values the literal parser makes of the tokens, and their members:   *)
(* what reaches _ParseConvert and, from inside a container, the converters *)
Literals ==
   LET top == {DefaultParseValue(tok).val : tok \in {x \in Tokens : IsOk(DefaultParseValue(x))}}
       members == UNION {Range(v.elts) \cup Range(v.vals) \cup Range(Items(v)) : v \in top}
   IN  top \cup members

(* What reaches a registered converter: a token, or a literal value. *)
ConverterArgs == {StrV(tok) : tok \in Tokens} \cup Literals

(* Timestamp tokens of at most MaxTimeLen characters are passed to         *)
(* ParseTime.                                                              *)
MaxTimeLen == 19

(* Timestamp tokens: well-formed ones for each format, short fields,      *)
(* dates that do not exist, fields out of range, spaces, digit runs with   *)
(* more than one reading, and text that is no timestamp.                   *)
TimeCatalogue ==
   {
      <<"2", "0", "2", "3", "/", "0", "9", "/", "2", "4">>,                                                     \* 2023/09/24
      <<"2", "0", "2", "3", "-", "0", "9", "-", "2", "4">>,                                                     \* 2023-09-24
      <<"2", "0", "2", "3", "/", "9", "/", "4">>,                                                               \* 2023/9/4
      <<"2", "0", "2", "3", "-", "9", "-", "4">>,                                                               \* 2023-9-4
      <<"2", "0", "2", "4", "/", "0", "2", "/", "2", "9">>,                                                     \* 2024/02/29
      <<"2", "0", "2", "4", "-", "0", "2", "-", "2", "9">>,                                                     \* 2024-02-29
      <<"2", "0", "2", "3", "/", "0", "2", "/", "2", "9">>,                                                     \* 2023/02/29
      <<"2", "0", "2", "3", "-", "0", "2", "-", "2", "9">>,                                                     \* 2023-02-29
      <<"2", "0", "2", "3", "/", "0", "4", "/", "3", "1">>,                                                     \* 2023/04/31
      <<"2", "0", "2", "3", "-", "0", "4", "-", "3", "1">>,                                                     \* 2023-04-31
      <<"0", "0", "0", "0", "/", "0", "1", "/", "0", "1">>,                                                     \* 0000/01/01
      <<"0", "0", "0", "0", "-", "0", "1", "-", "0", "1">>,                                                     \* 0000-01-01
      <<"2", "0", "2", "3", "/", "1", "3", "/", "0", "1">>,                                                     \* 2023/13/01
      <<"2", "0", "2", "3", "-", "1", "3", "-", "0", "1">>,                                                     \* 2023-13-01
      <<"2", "0", "2", "3", "/", "1", "/", " ", "1">>,                                                          \* 2023/1/ 1
      <<"2", "0", "2", "3", "-", "1", "-", " ", "1">>,                                                          \* 2023-1- 1
      <<"2", "0", "2", "3", "-", "0", "9", "-", "2", "4", "-", "1", "2", ":", "5", "2", ":", "3", "3">>,        \* 2023-09-24-12:52:33
      <<"2", "0", "2", "3", "-", "0", "9", "-", "2", "4", " ", "1", "2", ":", "5", "2", ":", "3", "3">>,        \* 2023-09-24 12:52:33
      <<"2", "0", "2", "3", "/", "0", "9", "/", "2", "4", " ", "1", "2", ":", "5", "2", ":", "3", "3">>,        \* 2023/09/24 12:52:33
      <<"2", "0", "2", "3", "-", "0", "9", "-", "2", "4", "-", "1", ":", "2", ":", "3">>,                       \* 2023-09-24-1:2:3
      <<"2", "0", "2", "3", "-", "0", "9", "-", "2", "4", " ", "1", ":", "2", ":", "3">>,                       \* 2023-09-24 1:2:3
      <<"2", "0", "2", "3", "/", "0", "9", "/", "2", "4", " ", "1", ":", "2", ":", "3">>,                       \* 2023/09/24 1:2:3
      <<"2", "0", "2", "3", "-", "0", "9", "-", "2", "4", "-", "2", "3", ":", "5", "9", ":", "5", "9">>,        \* 2023-09-24-23:59:59
      <<"2", "0", "2", "3", "-", "0", "9", "-", "2", "4", " ", "2", "3", ":", "5", "9", ":", "5", "9">>,        \* 2023-09-24 23:59:59
      <<"2", "0", "2", "3", "/", "0", "9", "/", "2", "4", " ", "2", "3", ":", "5", "9", ":", "5", "9">>,        \* 2023/09/24 23:59:59
      <<"2", "0", "2", "3", "-", "0", "9", "-", "2", "4", "-", "2", "4", ":", "0", "0", ":", "0", "0">>,        \* 2023-09-24-24:00:00
      <<"2", "0", "2", "3", "-", "0", "9", "-", "2", "4", " ", "2", "4", ":", "0", "0", ":", "0", "0">>,        \* 2023-09-24 24:00:00
      <<"2", "0", "2", "3", "/", "0", "9", "/", "2", "4", " ", "2", "4", ":", "0", "0", ":", "0", "0">>,        \* 2023/09/24 24:00:00
      <<"2", "0", "2", "3", "-", "0", "9", "-", "2", "4", "-", "1", "2", ":", "5", "2", ":", "6", "0">>,        \* 2023-09-24-12:52:60
      <<"2", "0", "2", "3", "-", "0", "9", "-", "2", "4", " ", "1", "2", ":", "5", "2", ":", "6", "0">>,        \* 2023-09-24 12:52:60
      <<"2", "0", "2", "3", "/", "0", "9", "/", "2", "4", " ", "1", "2", ":", "5", "2", ":", "6", "0">>,        \* 2023/09/24 12:52:60
      <<"2", "0", "2", "3", "-", "0", "9", "-", "2", "4", "-", "0", "0", ":", "0", "0", ":", "0", "0">>,        \* 2023-09-24-00:00:00
      <<"2", "0", "2", "3", "-", "0", "9", "-", "2", "4", " ", "0", "0", ":", "0", "0", ":", "0", "0">>,        \* 2023-09-24 00:00:00
      <<"2", "0", "2", "3", "/", "0", "9", "/", "2", "4", " ", "0", "0", ":", "0", "0", ":", "0", "0">>,        \* 2023/09/24 00:00:00
      <<"2", "0", "2", "3", "-", "9", "-", "4", "-", "1", "2", ":", "5", "2", ":", "3", "3">>,                  \* 2023-9-4-12:52:33
      <<"2", "0", "2", "3", "-", "9", "-", "4", " ", "1", "2", ":", "5", "2", ":", "3", "3">>,                  \* 2023-9-4 12:52:33
      <<"2", "0", "2", "3", "/", "9", "/", "4", " ", "1", "2", ":", "5", "2", ":", "3", "3">>,                  \* 2023/9/4 12:52:33
      <<"2", "0", "2", "3", "-", "9", "-", "4", "-", "1", ":", "2", ":", "3">>,                                 \* 2023-9-4-1:2:3
      <<"2", "0", "2", "3", "-", "9", "-", "4", " ", "1", ":", "2", ":", "3">>,                                 \* 2023-9-4 1:2:3
      <<"2", "0", "2", "3", "/", "9", "/", "4", " ", "1", ":", "2", ":", "3">>,                                 \* 2023/9/4 1:2:3
      <<"2", "0", "2", "3", "-", "9", "-", "4", "-", "2", "3", ":", "5", "9", ":", "5", "9">>,                  \* 2023-9-4-23:59:59
      <<"2", "0", "2", "3", "-", "9", "-", "4", " ", "2", "3", ":", "5", "9", ":", "5", "9">>,                  \* 2023-9-4 23:59:59
      <<"2", "0", "2", "3", "/", "9", "/", "4", " ", "2", "3", ":", "5", "9", ":", "5", "9">>,                  \* 2023/9/4 23:59:59
      <<"2", "0", "2", "3", "-", "9", "-", "4", "-", "2", "4", ":", "0", "0", ":", "0", "0">>,                  \* 2023-9-4-24:00:00
      <<"2", "0", "2", "3", "-", "9", "-", "4", " ", "2", "4", ":", "0", "0", ":", "0", "0">>,                  \* 2023-9-4 24:00:00
      <<"2", "0", "2", "3", "/", "9", "/", "4", " ", "2", "4", ":", "0", "0", ":", "0", "0">>,                  \* 2023/9/4 24:00:00
      <<"2", "0", "2", "3", "-", "9", "-", "4", "-", "1", "2", ":", "5", "2", ":", "6", "0">>,                  \* 2023-9-4-12:52:60
      <<"2", "0", "2", "3", "-", "9", "-", "4", " ", "1", "2", ":", "5", "2", ":", "6", "0">>,                  \* 2023-9-4 12:52:60
      <<"2", "0", "2", "3", "/", "9", "/", "4", " ", "1", "2", ":", "5", "2", ":", "6", "0">>,                  \* 2023/9/4 12:52:60
      <<"2", "0", "2", "3", "-", "9", "-", "4", "-", "0", "0", ":", "0", "0", ":", "0", "0">>,                  \* 2023-9-4-00:00:00
      <<"2", "0", "2", "3", "-", "9", "-", "4", " ", "0", "0", ":", "0", "0", ":", "0", "0">>,                  \* 2023-9-4 00:00:00
      <<"2", "0", "2", "3", "/", "9", "/", "4", " ", "0", "0", ":", "0", "0", ":", "0", "0">>,                  \* 2023/9/4 00:00:00
      <<"2", "0", "2", "4", "-", "0", "2", "-", "2", "9", "-", "1", "2", ":", "5", "2", ":", "3", "3">>,        \* 2024-02-29-12:52:33
      <<"2", "0", "2", "4", "-", "0", "2", "-", "2", "9", " ", "1", "2", ":", "5", "2", ":", "3", "3">>,        \* 2024-02-29 12:52:33
      <<"2", "0", "2", "4", "/", "0", "2", "/", "2", "9", " ", "1", "2", ":", "5", "2", ":", "3", "3">>,        \* 2024/02/29 12:52:33
      <<"2", "0", "2", "4", "-", "0", "2", "-", "2", "9", "-", "1", ":", "2", ":", "3">>,                       \* 2024-02-29-1:2:3
      <<"2", "0", "2", "4", "-", "0", "2", "-", "2", "9", " ", "1", ":", "2", ":", "3">>,                       \* 2024-02-29 1:2:3
      <<"2", "0", "2", "4", "/", "0", "2", "/", "2", "9", " ", "1", ":", "2", ":", "3">>,                       \* 2024/02/29 1:2:3
      <<"2", "0", "2", "4", "-", "0", "2", "-", "2", "9", "-", "2", "3", ":", "5", "9", ":", "5", "9">>,        \* 2024-02-29-23:59:59
      <<"2", "0", "2", "4", "-", "0", "2", "-", "2", "9", " ", "2", "3", ":", "5", "9", ":", "5", "9">>,        \* 2024-02-29 23:59:59
      <<"2", "0", "2", "4", "/", "0", "2", "/", "2", "9", " ", "2", "3", ":", "5", "9", ":", "5", "9">>,        \* 2024/02/29 23:59:59
      <<"2", "0", "2", "4", "-", "0", "2", "-", "2", "9", "-", "2", "4", ":", "0", "0", ":", "0", "0">>,        \* 2024-02-29-24:00:00
      <<"2", "0", "2", "4", "-", "0", "2", "-", "2", "9", " ", "2", "4", ":", "0", "0", ":", "0", "0">>,        \* 2024-02-29 24:00:00
      <<"2", "0", "2", "4", "/", "0", "2", "/", "2", "9", " ", "2", "4", ":", "0", "0", ":", "0", "0">>,        \* 2024/02/29 24:00:00
      <<"2", "0", "2", "4", "-", "0", "2", "-", "2", "9", "-", "1", "2", ":", "5", "2", ":", "6", "0">>,        \* 2024-02-29-12:52:60
      <<"2", "0", "2", "4", "-", "0", "2", "-", "2", "9", " ", "1", "2", ":", "5", "2", ":", "6", "0">>,        \* 2024-02-29 12:52:60
      <<"2", "0", "2", "4", "/", "0", "2", "/", "2", "9", " ", "1", "2", ":", "5", "2", ":", "6", "0">>,        \* 2024/02/29 12:52:60
      <<"2", "0", "2", "4", "-", "0", "2", "-", "2", "9", "-", "0", "0", ":", "0", "0", ":", "0", "0">>,        \* 2024-02-29-00:00:00
      <<"2", "0", "2", "4", "-", "0", "2", "-", "2", "9", " ", "0", "0", ":", "0", "0", ":", "0", "0">>,        \* 2024-02-29 00:00:00
      <<"2", "0", "2", "4", "/", "0", "2", "/", "2", "9", " ", "0", "0", ":", "0", "0", ":", "0", "0">>,        \* 2024/02/29 00:00:00
      <<"2", "0", "2", "3", "-", "0", "2", "-", "2", "9", "-", "1", "2", ":", "5", "2", ":", "3", "3">>,        \* 2023-02-29-12:52:33
      <<"2", "0", "2", "3", "-", "0", "2", "-", "2", "9", " ", "1", "2", ":", "5", "2", ":", "3", "3">>,        \* 2023-02-29 12:52:33
      <<"2", "0", "2", "3", "/", "0", "2", "/", "2", "9", " ", "1", "2", ":", "5", "2", ":", "3", "3">>,        \* 2023/02/29 12:52:33
      <<"2", "0", "2", "3", "-", "0", "2", "-", "2", "9", "-", "1", ":", "2", ":", "3">>,                       \* 2023-02-29-1:2:3
      <<"2", "0", "2", "3", "-", "0", "2", "-", "2", "9", " ", "1", ":", "2", ":", "3">>,                       \* 2023-02-29 1:2:3
      <<"2", "0", "2", "3", "/", "0", "2", "/", "2", "9", " ", "1", ":", "2", ":", "3">>,                       \* 2023/02/29 1:2:3
      <<"2", "0", "2", "3", "-", "0", "2", "-", "2", "9", "-", "2", "3", ":", "5", "9", ":", "5", "9">>,        \* 2023-02-29-23:59:59
      <<"2", "0", "2", "3", "-", "0", "2", "-", "2", "9", " ", "2", "3", ":", "5", "9", ":", "5", "9">>,        \* 2023-02-29 23:59:59
      <<"2", "0", "2", "3", "/", "0", "2", "/", "2", "9", " ", "2", "3", ":", "5", "9", ":", "5", "9">>,        \* 2023/02/29 23:59:59
      <<"2", "0", "2", "3", "-", "0", "2", "-", "2", "9", "-", "2", "4", ":", "0", "0", ":", "0", "0">>,        \* 2023-02-29-24:00:00
      <<"2", "0", "2", "3", "-", "0", "2", "-", "2", "9", " ", "2", "4", ":", "0", "0", ":", "0", "0">>,        \* 2023-02-29 24:00:00
      <<"2", "0", "2", "3", "/", "0", "2", "/", "2", "9", " ", "2", "4", ":", "0", "0", ":", "0", "0">>,        \* 2023/02/29 24:00:00
      <<"2", "0", "2", "3", "-", "0", "2", "-", "2", "9", "-", "1", "2", ":", "5", "2", ":", "6", "0">>,        \* 2023-02-29-12:52:60
      <<"2", "0", "2", "3", "-", "0", "2", "-", "2", "9", " ", "1", "2", ":", "5", "2", ":", "6", "0">>,        \* 2023-02-29 12:52:60
      <<"2", "0", "2", "3", "/", "0", "2", "/", "2", "9", " ", "1", "2", ":", "5", "2", ":", "6", "0">>,        \* 2023/02/29 12:52:60
      <<"2", "0", "2", "3", "-", "0", "2", "-", "2", "9", "-", "0", "0", ":", "0", "0", ":", "0", "0">>,        \* 2023-02-29-00:00:00
      <<"2", "0", "2", "3", "-", "0", "2", "-", "2", "9", " ", "0", "0", ":", "0", "0", ":", "0", "0">>,        \* 2023-02-29 00:00:00
      <<"2", "0", "2", "3", "/", "0", "2", "/", "2", "9", " ", "0", "0", ":", "0", "0", ":", "0", "0">>,        \* 2023/02/29 00:00:00
      <<"2", "0", "2", "3", "-", "0", "4", "-", "3", "1", "-", "1", "2", ":", "5", "2", ":", "3", "3">>,        \* 2023-04-31-12:52:33
      <<"2", "0", "2", "3", "-", "0", "4", "-", "3", "1", " ", "1", "2", ":", "5", "2", ":", "3", "3">>,        \* 2023-04-31 12:52:33
      <<"2", "0", "2", "3", "/", "0", "4", "/", "3", "1", " ", "1", "2", ":", "5", "2", ":", "3", "3">>,        \* 2023/04/31 12:52:33
      <<"2", "0", "2", "3", "-", "0", "4", "-", "3", "1", "-", "1", ":", "2", ":", "3">>,                       \* 2023-04-31-1:2:3
      <<"2", "0", "2", "3", "-", "0", "4", "-", "3", "1", " ", "1", ":", "2", ":", "3">>,                       \* 2023-04-31 1:2:3
      <<"2", "0", "2", "3", "/", "0", "4", "/", "3", "1", " ", "1", ":", "2", ":", "3">>,                       \* 2023/04/31 1:2:3
      <<"2", "0", "2", "3", "-", "0", "4", "-", "3", "1", "-", "2", "3", ":", "5", "9", ":", "5", "9">>,        \* 2023-04-31-23:59:59
      <<"2", "0", "2", "3", "-", "0", "4", "-", "3", "1", " ", "2", "3", ":", "5", "9", ":", "5", "9">>,        \* 2023-04-31 23:59:59
      <<"2", "0", "2", "3", "/", "0", "4", "/", "3", "1", " ", "2", "3", ":", "5", "9", ":", "5", "9">>,        \* 2023/04/31 23:59:59
      <<"2", "0", "2", "3", "-", "0", "4", "-", "3", "1", "-", "2", "4", ":", "0", "0", ":", "0", "0">>,        \* 2023-04-31-24:00:00
      <<"2", "0", "2", "3", "-", "0", "4", "-", "3", "1", " ", "2", "4", ":", "0", "0", ":", "0", "0">>,        \* 2023-04-31 24:00:00
      <<"2", "0", "2", "3", "/", "0", "4", "/", "3", "1", " ", "2", "4", ":", "0", "0", ":", "0", "0">>,        \* 2023/04/31 24:00:00
      <<"2", "0", "2", "3", "-", "0", "4", "-", "3", "1", "-", "1", "2", ":", "5", "2", ":", "6", "0">>,        \* 2023-04-31-12:52:60
      <<"2", "0", "2", "3", "-", "0", "4", "-", "3", "1", " ", "1", "2", ":", "5", "2", ":", "6", "0">>,        \* 2023-04-31 12:52:60
      <<"2", "0", "2", "3", "/", "0", "4", "/", "3", "1", " ", "1", "2", ":", "5", "2", ":", "6", "0">>,        \* 2023/04/31 12:52:60
      <<"2", "0", "2", "3", "-", "0", "4", "-", "3", "1", "-", "0", "0", ":", "0", "0", ":", "0", "0">>,        \* 2023-04-31-00:00:00
      <<"2", "0", "2", "3", "-", "0", "4", "-", "3", "1", " ", "0", "0", ":", "0", "0", ":", "0", "0">>,        \* 2023-04-31 00:00:00
      <<"2", "0", "2", "3", "/", "0", "4", "/", "3", "1", " ", "0", "0", ":", "0", "0", ":", "0", "0">>,        \* 2023/04/31 00:00:00
      <<"2", "0", "2", "3", "0", "9", "2", "4", "1", "2", "5", "2", "3", "3">>,                                 \* 20230924125233
      <<"2", "0", "2", "3", "0", "9", "2", "4", "1", "2", "3">>,                                                \* 20230924123
      <<"2", "0", "2", "3", "0", "9", "2", "4", "2", "3", "5", "9", "5", "9">>,                                 \* 20230924235959
      <<"2", "0", "2", "3", "9", "4", "1", "2", "5", "2", "3", "3">>,                                           \* 202394125233
      <<"2", "0", "2", "3", "9", "4", "1", "2", "3">>,                                                          \* 202394123
      <<"2", "0", "2", "3", "9", "4", "2", "3", "5", "9", "5", "9">>,                                           \* 202394235959
      <<"2", "0", "2", "4", "0", "2", "2", "9", "1", "2", "5", "2", "3", "3">>,                                 \* 20240229125233
      <<"2", "0", "2", "4", "0", "2", "2", "9", "1", "2", "3">>,                                                \* 20240229123
      <<"2", "0", "2", "4", "0", "2", "2", "9", "2", "3", "5", "9", "5", "9">>,                                 \* 20240229235959
      <<"2", "0", "2", "3", "0", "2", "2", "9", "1", "2", "5", "2", "3", "3">>,                                 \* 20230229125233
      <<"2", "0", "2", "3", "0", "2", "2", "9", "1", "2", "3">>,                                                \* 20230229123
      <<"2", "0", "2", "3", "0", "2", "2", "9", "2", "3", "5", "9", "5", "9">>,                                 \* 20230229235959
      <<>>,                                                                                                     \* 
      <<"N", "o", "n", "e">>,                                                                                   \* None
      <<"5">>,                                                                                                  \* 5
      <<"2", "0", "2", "3">>,                                                                                   \* 2023
      <<"2", "0", "2", "3", "0", "9", "2", "4">>,                                                               \* 20230924
      <<"2", "0", "2", "3", "1", "1", "2", "1", "3">>,                                                          \* 202311213
      <<"2", "0", "2", "3", "6", "3", "1", "0", "0", "0">>,                                                     \* 2023631000
      <<"2", "0", "2", "3", "1", "1", "1", "1", "1", "1", "1">>,                                                \* 20231111111
      <<"2", "0", "2", "3", "1", "1", "1">>,                                                                    \* 2023111
      <<"2", "0", "2", "3", "1">>,                                                                              \* 20231
      <<"2", "0", "2", "3", "-", "0", "9", "-", "2", "4", " ", " ", "1", "2", ":", "5", "2", ":", "3", "3">>,   \* 2023-09-24  12:52:33
      <<"2", "0", "2", "3", "-", "0", "9", "-", "2", "4", " ", "1", "2", ":", "5", "2">>,                       \* 2023-09-24 12:52
      <<"2", "0", "2", "3", "-", "0", "9", "-", "2", "4", " ">>,                                                \* 2023-09-24 
      <<" ", "2", "0", "2", "3", "-", "0", "9", "-", "2", "4">>,                                                \*  2023-09-24
      <<"2", "0", "2", "3", "-", " ", "1", "-", "1">>,                                                          \* 2023- 1-1
      <<"2", "0", "2", "3", "-", "1", "-", "1", "2", "3">>,                                                     \* 2023-1-123
      <<"2", "0", "2", "3", "/", "0", "9", "-", "2", "4">>,                                                     \* 2023/09-24
      <<"2", "0", "2", "3", "-", "0", "9", "/", "2", "4">>,                                                     \* 2023-09/24
      <<"2", "0", "2", "3", "/", "0", "9", "/", "2", "4", "-", "1", "2", ":", "5", "2", ":", "3", "3">>,        \* 2023/09/24-12:52:33
      <<"2", "0", "2", "3", "-", "0", "9", "-", "2", "4", "T", "1", "2", ":", "5", "2", ":", "3", "3">>,        \* 2023-09-24T12:52:33
      <<"2", "0", "2", "3", "-", "0", "9", "-", "2", "4", " ", "1", "2", ":", "5", "2", ":", "3", "3", " ">>,   \* 2023-09-24 12:52:33 
      <<"2", "2", "3", "-", "0", "9", "-", "2", "4">>,                                                          \* 223-09-24
      <<"0", "2", "0", "2", "3", "-", "0", "9", "-", "2", "4">>,                                                \* 02023-09-24
      <<"2", "0", "2", "3", "-", "0", "9", "-", "2", "4", "-", "1", "2", ":", "5", "2", ":", "3", "3", ".", "5">>,\* 2023-09-24-12:52:33.5
      <<"2", "0", "2", "3", "-", "0", "0", "-", "0", "1">>,                                                     \* 2023-00-01
      <<"2", "0", "2", "3", "-", "0", "1", "-", "0", "0">>,                                                     \* 2023-01-00
      <<"2", "0", "2", "3", "-", "1", "-", "3", "2">>,                                                          \* 2023-1-32
      <<"2", "0", "2", "3", "-", "1", "-", "3", "1">>,                                                          \* 2023-1-31
      <<"1", "9", "0", "0", "-", "0", "2", "-", "2", "9">>,                                                     \* 1900-02-29
      <<"2", "0", "0", "0", "-", "0", "2", "-", "2", "9">>,                                                     \* 2000-02-29
      <<"9", "9", "9", "9", "-", "1", "2", "-", "3", "1">>,                                                     \* 9999-12-31
      <<"0", "0", "0", "1", "-", "0", "1", "-", "0", "1">>,                                                     \* 0001-01-01
      <<"2", "0", "2", "3", "/", "9", "/", "2", "4">>,                                                          \* 2023/9/24
      <<"2", "0", "2", "3", "-", "0", "9", "-", "2", "4", " ", "1", "2", "-", "5", "2", "-", "3", "3">>,        \* 2023-09-24 12-52-33
      <<"2", "0", "2", "3", "/", "0", "2", "/", "3", "0", " ", "1", ":", "2", ":", "3">>,                       \* 2023/02/30 1:2:3
      <<"2", "0", "2", "3", "-", "0", "9", "-", "2", "4", " ", " ", " ", "1", ":", "2", ":", "3">>,             \* 2023-09-24   1:2:3
      <<"2", "0", "2", "3", "/", "1", "2", "/", "3", "1", " ", " ", "2", "3", ":", "5", "9", ":", "5", "9">>,   \* 2023/12/31  23:59:59
      <<"2", "0", "2", "3", "0", "2", "2", "9", "0", "0", "0", "0", "0", "0">>,                                 \* 20230229000000
      <<"2", "0", "2", "3", "0", "1", "0", "1", "0", "0", "0", "0", "0">>,                                      \* 2023010100000
      <<"2", "0", "2", "3", "0", "1", "0", "1", "0", "0", "0", "0", "0", "0", "0">>,                            \* 202301010000000
      <<"2", "0", "2", "3", "-", " ", "1", "-", " ", "1">>,                                                     \* 2023- 1- 1
      <<"2", "0", "2", "3", "/", "1", "/", " ", "1", " ", "1", ":", "1", ":", "1">>,                            \* 2023/1/ 1 1:1:1
      <<"2", "0", "2", "3", "-", "0", "9", "-", "2", "4", "-", "1", "2", ":", "5", "2", ":", "6", "1">>,        \* 2023-09-24-12:52:61
      <<"2", "0", "2", "3", "-", "0", "9", "-", "2", "4", " ", "1", "2", ":", "6", "0", ":", "0", "0">>,        \* 2023-09-24 12:60:00
      <<"a", "b", "c">>,                                                                                        \* abc
      <<"2", "0", "2", "3", "-", "0", "9", "-", "2", "4", "x">>                                                 \* 2023-09-24x
   }

TimeTokens == {t \in TimeCatalogue : Len(t) <= MaxTimeLen}

(* What reaches ParseTime: a token, or a member of a container that is not *)
(* a string.                                                               *)
TimeArgs == {StrV(t) : t \in TimeTokens} \cup {v \in Literals : v.ty # "str"}

(* Identifiers a Name node may carry. *)
Identifiers == ReservedNames \cup {<<"a">>, <<"t", "r", "u", "e">>, <<"n", "o", "n", "e">>}

NoTree == Node("", "", <<>>, NoneV, <<>>, <<>>, <<>>)

VARIABLES
   op,        \* the function called last ("" before the first call)
   token,     \* its string argument
   typ,       \* its annotation argument
   arg,       \* its value argument
   tree,      \* _LiteralEval: the syntax tree when evaluation starts (or
              \* where parsing stopped); _Replacement: the node returned
   outcome    \* how the call ended

vars == <<op, token, typ, arg, tree, outcome>>

Init ==
   /\ op = ""
   /\ token = <<>>
   /\ typ = NoneT
   /\ arg = NoneV
   /\ tree = NoTree
   /\ outcome = Ok(NoneV)

(* No call is in progress: the parser keeps nothing between calls. *)
Idle == op = ""

(* the tree _LiteralEval hands to ast.literal_eval, or stops at *)
TreeOf(value) ==
   LET root == AstParse(value)
   IN  IF root.k \in {"SyntaxError", "Unmodelled"} \/ RootIsBinOp(root) THEN root
       ELSE ReplaceNames(root)

CallLiteralEval ==
   /\ Idle
   /\ \E value \in Tokens :
         /\ op' = "_LiteralEval"
         /\ token' = value
         /\ tree' = TreeOf(value)
         /\ outcome' = _LiteralEval(value)
         /\ UNCHANGED <<typ, arg>>

CallDefaultParseValue ==
   /\ Idle
   /\ \E value \in Tokens :
         /\ op' = "DefaultParseValue"
         /\ token' = value
         /\ tree' = TreeOf(value)
         /\ outcome' = DefaultParseValue(value)
         /\ UNCHANGED <<typ, arg>>

CallReplacement ==
   /\ Idle
   /\ \E id \in Identifiers :
         /\ op' = "_Replacement"
         /\ token' = id
         /\ tree' = _Replacement(Name(id))
         /\ outcome' = Ok(NoneV)
         /\ UNCHANGED <<typ, arg>>

CallSpecTypeParseValueGen ==
   /\ Idle
   /\ \E value \in Tokens, t \in Classes \cup Aliases :
         /\ op' = "SpecTypeParseValueGen"
         /\ token' = value
         /\ typ' = t
         /\ outcome' = SpecTypeParseValueGen(t, value)
         /\ UNCHANGED <<arg, tree>>

CallParseComplexValue ==
   /\ Idle
   /\ \E value \in Tokens, t \in Aliases :
         /\ op' = "ParseComplexValue"
         /\ token' = value
         /\ typ' = t
         /\ outcome' = ParseComplexValue(value, t)
         /\ UNCHANGED <<arg, tree>>

CallParseConvert ==
   /\ Idle
   /\ \E parsed \in Literals, t \in Aliases :
         /\ op' = "_ParseConvert"
         /\ arg' = parsed
         /\ typ' = t
         /\ outcome' = _ParseConvert(parsed, t)
         /\ UNCHANGED <<token, tree>>

CallBytesParser ==
   /\ Idle
   /\ \E value \in ConverterArgs :
         /\ op' = "_BytesParser"
         /\ arg' = value
         /\ outcome' = _BytesParser(value)
         /\ UNCHANGED <<token, typ, tree>>

CallBoolParser ==
   /\ Idle
   /\ \E value \in ConverterArgs :
         /\ op' = "BoolParser"
         /\ arg' = value
         /\ outcome' = BoolParser(value)
         /\ UNCHANGED <<token, typ, tree>>

CallParseTime ==
   /\ Idle
   /\ \E value \in TimeArgs :
         /\ op' = "ParseTime"
         /\ arg' = value
         /\ token' = value.s
         /\ outcome' = ParseTime(value)
         /\ UNCHANGED <<typ, tree>>

(* The call returns to the binding layer, which keeps nothing of it here. *)
Return ==
   /\ ~Idle
   /\ op' = ""
   /\ token' = <<>>
   /\ typ' = NoneT
   /\ arg' = NoneV
   /\ tree' = NoTree
   /\ outcome' = Ok(NoneV)

Next ==
   \/ Return
   \/ CallLiteralEval
   \/ CallDefaultParseValue
   \/ CallReplacement
   \/ CallSpecTypeParseValueGen
   \/ CallParseComplexValue
   \/ CallParseConvert
   \/ CallBytesParser
   \/ CallBoolParser
   \/ CallParseTime

Spec == Init /\ [][Next]_vars

(* Every string the model parses is in the catalogue and every class it    *)
(* calls is modelled.                                                      *)
ModelClosed == outcome.st # "Unmodelled"

----------------------------------------------------------------------------
(* Properties.                                                             *)

IsSumCall == op = "ParseComplexValue" /\ typ.o = "Union"

IsNestedSumCall == op = "_ParseConvert" /\ typ.o = "Union"

NonAbsent(args) == SelectSeq(args, LAMBDA a : a # NoneT)

(* what a Sum owes its caller, given how each non-absence variant ends *)
FirstSuccess(outs, o) ==
   IF \E i \in DOMAIN outs : IsOk(outs[i])
   THEN LET first == CHOOSE i \in DOMAIN outs :
                        IsOk(outs[i]) /\ \A j \in 1..(i - 1) : ~IsOk(outs[j])
        IN  o.st = "ok" /\ o.val = outs[first].val
   ELSE o.st = "ValueError" /\ o.why = "NoVariantMatched"

(* C1: a Sum applied to a token (or, nested in a container, to a literal   *)
(* value) that is not resolved as absence returns the result of the first  *)
(* non-absence variant, in declaration order, whose conversion succeeds; a *)
(* failing earlier variant does not keep a later one from being tried, and *)
(* the call fails with NoVariantMatched only when every variant failed.    *)
C1_FirstSuccessWins ==
   /\ (IsSumCall /\ ~AbsenceShortcut(token, typ.args)) =>
         LET vs == NonAbsent(typ.args)
         IN  FirstSuccess([i \in DOMAIN vs |-> SpecTypeParseValueGen(vs[i], token)], outcome)
   /\ (IsNestedSumCall /\ ~(arg = NoneV /\ HasNoneType(typ.args))) =>
         LET vs == NonAbsent(typ.args)
         IN  FirstSuccess([i \in DOMAIN vs |->
                             IF IsGenericAlias(vs[i]) THEN _ParseConvert(arg, vs[i])
                             ELSE CallType(vs[i], arg)], outcome)

(* C2: for a Sum with an absence variant, at any position, the token       *)
(* spelled None yields absence at once: no variant is converted first.     *)
C2_AbsenceImmediate ==
   (IsSumCall /\ HasNoneType(typ.args) /\ token = NoneSpelling) =>
      outcome.st = "ok" /\ outcome.val = NoneV /\ outcome.tried = <<>>

(* Optional[str] on None: the str variant, tried first, would have         *)
(* returned the string.                                                    *)
C2_Witness ==
   /\ IsSumCall /\ typ = OptionalT(StrT) /\ token = NoneSpelling
   /\ outcome.val = NoneV
   /\ IsOk(CallType(StrT, StrV(token)))

(* C3: converting a token against a Sequence (Set) annotation succeeds     *)
(* only if the token literal-parses to a list (set).                       *)
C3_ContainerShapeRequired ==
   (op = "ParseComplexValue" /\ typ.o \in {"list", "set"} /\ IsOk(outcome)) =>
      DefaultParseValue(token).val.ty = typ.o

(* Tuple[X, ...]: one repeated element type *)
IsVariadic(t) == t.o = "tuple" /\ Len(t.args) = 2 /\ t.args[2] = EllipsisT

(* C4: a FixedTuple accepts a parsed tuple exactly when its arity equals   *)
(* the number of element types, except that one repeated element type      *)
(* accepts every arity and converts each position with that type; every    *)
(* other difference in length fails with ArityMismatch.                    *)
C4_TupleArity ==
   (op = "_ParseConvert" /\ typ.o = "tuple" /\ arg.ty = "tuple") =>
      IF IsVariadic(typ)
      THEN outcome = _ParseConvert(arg, TupleT([i \in DOMAIN arg.elts |-> typ.args[1]]))
      ELSE (outcome.why = "ArityMismatch") <=>
              (Len(arg.elts) # Len(_DeGenericAlias(typ).args))

(* an annotation that asks for no conversion *)
IsUnknown(t) == t \in {AnyT, TypeVarT, TypeVarClassT}

(* C5: in a Mapping, a key or value annotation that is Unknown (a bare     *)
(* mapping, Any, a type variable) passes the parsed keys or values through *)
(* unchanged, and the conversion succeeds with them.                       *)
C5_UnknownPassesThrough ==
   (op = "_ParseConvert" /\ typ.o = "dict" /\ arg.ty = "dict") =>
      LET children == _DeGenericAlias(typ).args
          key_t == IF typ.hasArgs THEN children[1] ELSE AnyT
          value_t == IF typ.hasArgs THEN children[2] ELSE AnyT
          KeysConvert == \A i \in DOMAIN arg.elts :
                            IF IsGenericAlias(key_t) THEN IsOk(_ParseConvert(arg.elts[i], key_t))
                            ELSE IsOk(CallType(key_t, arg.elts[i]))
          ValuesConvert == \A i \in DOMAIN arg.vals :
                            IF IsGenericAlias(value_t) THEN IsOk(_ParseConvert(arg.vals[i], value_t))
                            ELSE IsOk(CallType(value_t, arg.vals[i]))
      IN  /\ (IsUnknown(key_t) /\ IsUnknown(value_t)) => outcome = Ok(arg)
          /\ (IsUnknown(key_t) /\ ~IsUnknown(value_t) /\ ValuesConvert) =>
                IsOk(outcome) /\ outcome.val.elts = arg.elts
          /\ (~IsUnknown(key_t) /\ IsUnknown(value_t) /\ KeysConvert) =>
                IsOk(outcome) /\ Range(outcome.val.vals) \subseteq Range(arg.vals)

(* C6: the byte-buffer converter encodes a string that is not spelled as a *)
(* byte literal, turns an integer into its 8-byte big-endian form, and     *)
(* fails with UnsupportedType on every other type of value.                *)
C6_BytesDispatch ==
   op = "_BytesParser" =>
      /\ (arg.ty = "str" /\ ~\E p \in BytesPrefixes : StartsWith(arg.s, p)) =>
            outcome = Ok(BytesV(EncodeUtf8(arg.s)))
      /\ (arg.ty = "int" /\ arg.n >= 0) =>
            outcome = Ok(BytesV(BigEndian(arg.n, BytesWidth)))
      /\ arg.ty \notin {"str", "bytes", "int", "bool"} =>
            outcome.st = "ValueError" /\ outcome.why = "UnsupportedType"

(* C7: the boolean converter never fails, and returns true exactly for the *)
(* string True and the boolean true; every other input yields false.       *)
C7_BoolOnlyTrue ==
   op = "BoolParser" =>
      /\ IsOk(outcome)
      /\ outcome.val = BoolV(arg = StrV(TrueSpelling) \/ arg = BoolV(TRUE))

(* C8: DefaultParseValue succeeds on every token: with the literal value   *)
(* when the token is a valid literal, and with the token itself, as a      *)
(* string, whenever parsing or evaluating the literal fails.               *)
C8_DefaultAlwaysSucceeds ==
   op = "DefaultParseValue" =>
      LET literal == _LiteralEval(token)
      IN  /\ IsOk(outcome)
          /\ outcome.val = IF IsOk(literal) THEN literal.val ELSE StrV(token)

(* every node of a tree *)
RECURSIVE NodesOf(_)
NodesOf(node) ==
   {node} \cup UNION {NodesOf(c) : c \in Range(node.kids) \cup Range(node.vals) \cup Range(node.subs)}

IsOperator(node) == node.k \in {"UnaryOp", "BinOp", "BoolOp", "Compare"}

IsRealLiteral(node) == node.k = "Constant" /\ node.val.ty \in {"int", "float"}

IsNumberLiteral(node) == node.k = "Constant" /\ node.val.ty \in {"int", "float", "complex"}

(* a sign on a number literal *)
IsSignedNumber(node) ==
   node.k = "UnaryOp" /\ node.op \in {"UAdd", "USub"} /\ IsNumberLiteral(node.subs[1])

(* real + imaginary, real - imaginary: how a complex number is spelled *)
IsComplexSpelling(node) ==
   /\ node.k = "BinOp" /\ node.op \in {"Add", "Sub"}
   /\ \/ IsRealLiteral(node.subs[1])
      \/ IsSignedNumber(node.subs[1]) /\ IsRealLiteral(node.subs[1].subs[1])
   /\ node.subs[2].k = "Constant" /\ node.subs[2].val.ty = "complex"

Parsed(value) == AstParse(value).k = "Expression"

(* the token as a whole is a binary operation *)
IsBinaryAtRoot(value) == Parsed(value) /\ AstParse(value).subs[1].k = "BinOp"

HasOperator(value) ==
   Parsed(value) /\ \E n \in NodesOf(AstParse(value)) : IsOperator(n)

(* an operator at the root that is a BinOp, or anywhere an operator that   *)
(* spells neither a signed number nor a complex number                     *)
HasRejectedOperator(value) ==
   /\ Parsed(value)
   /\ \/ IsBinaryAtRoot(value)
      \/ \E n \in NodesOf(AstParse(value)) :
            IsOperator(n) /\ ~IsSignedNumber(n) /\ ~IsComplexSpelling(n)

RECURSIVE Promote(_)
Promote(node) ==
   IF node.k = "Name" /\ node.id \notin ReservedNames THEN Constant(StrV(node.id))
   ELSE [node EXCEPT !.kids = [i \in DOMAIN node.kids |-> Promote(node.kids[i])],
                     !.vals = [i \in DOMAIN node.vals |-> Promote(node.vals[i])],
                     !.subs = [i \in DOMAIN node.subs |-> Promote(node.subs[i])]]

(* C10: when evaluation starts, every identifier of the tree that is not   *)
(* True, False or None, at any depth and in any position, has become a     *)
(* string literal of the same spelling and nothing else has changed; the   *)
(* three reserved names are returned untouched; {a: b} evaluates to the    *)
(* map from "a" to "b".                                                    *)
C10_BarewordsPromoted ==
   /\ (op \in {"_LiteralEval", "DefaultParseValue"} /\ Parsed(token)
          /\ ~IsBinaryAtRoot(token)) =>
         /\ tree = Promote(AstParse(token))
         /\ \A n \in NodesOf(tree) : n.k # "Name"
   /\ op = "_Replacement" =>
         tree = IF token \in ReservedNames THEN Name(token) ELSE Constant(StrV(token))
   /\ (op = "_LiteralEval" /\ token = <<"{", "a", ":", " ", "b", "}">>) =>
         outcome = Ok(DictV(<<StrV(<<"a">>)>>, <<StrV(<<"b">>)>>))

C10_Witness ==
   /\ op = "_LiteralEval"
   /\ token = <<"{", "a", ":", " ", "b", "}">>
   /\ IsOk(outcome)
   /\ tree # AstParse(token)

(* the typed converter and the registered converters *)
IsConversionCall ==
   op \in {"ParseComplexValue", "_ParseConvert", "_BytesParser", "BoolParser"}

(* C11: a conversion call ends with a value or with a ValueError, the one  *)
(* failure an enclosing Sum catches; no other exception (a TypeError, an   *)
(* AttributeError, ...) leaves ParseComplexValue, _ParseConvert or a       *)
(* registered converter.                                                   *)
C11_OnlyValueErrorEscapes ==
   IsConversionCall => outcome.st \in {"ok"} \cup CaughtBySum

(* how the conversion of one element of a sequence, set or tuple ends *)
ElementOutcome(each_type, each_value) ==
   IF ~IsGenericAlias(each_type) /\ each_type = NoneT
   THEN IF each_value = NoneV THEN Ok(NoneV) ELSE Raise("ValueError", "NotNone")
   ELSE ConvertItem(each_type, each_value)

(* the element types that zip(args, parsed) pairs with the elements *)
ElementTypes(t, count) ==
   IF t.o = "tuple" THEN _DeGenericAlias(t).args ELSE Repeat(_DeGenericAlias(t).args, count)

SameFailure(o, failed) == ~IsOk(o) /\ o.st = failed.st /\ o.why = failed.why

(* the whole conversion ends as the first element that fails *)
FailsAsFirstFailure(outs, o) ==
   (\E i \in DOMAIN outs : ~IsOk(outs[i])) =>
      LET first == CHOOSE i \in DOMAIN outs :
                      ~IsOk(outs[i]) /\ \A j \in 1..(i - 1) : IsOk(outs[j])
      IN  SameFailure(o, outs[first])

(* key of item 1, value of item 1, key of item 2, ... *)
PairOutcomes(key_t, value_t, keys, values) ==
   [n \in 1..(2 * Len(keys)) |->
      IF n % 2 = 1 THEN ConvertKey(key_t, keys[(n + 1) \div 2])
      ELSE ConvertValue(value_t, values[n \div 2])]

(* some element, key or value of the parsed container fails to convert *)
SomeElementFails(t, parsed) ==
   IF t.o = "dict"
   THEN /\ t.hasArgs /\ parsed.ty = "dict"
        /\ \E n \in 1..(2 * Len(parsed.elts)) :
              ~IsOk(PairOutcomes(t.args[1], t.args[2], parsed.elts, parsed.vals)[n])
   ELSE /\ HasLen(parsed)
        /\ Len(ElementTypes(t, Len(Items(parsed)))) = Len(Items(parsed))
        /\ \E i \in DOMAIN Items(parsed) :
              ~IsOk(ElementOutcome(ElementTypes(t, Len(Items(parsed)))[i], Items(parsed)[i]))

(* the first variant after position i that does not denote absence *)
NextVariant(args, i) ==
   CHOOSE j \in (i + 1)..Len(args) :
      args[j] # NoneT /\ \A k \in (i + 1)..(j - 1) : args[k] = NoneT

(* C12: a container conversion is all-or-nothing: when the conversion of   *)
(* an element, a key or a value fails, the whole conversion fails with     *)
(* that failure and returns no container; when the container annotation is *)
(* a variant of a Sum, the next variant is then tried on the token, so     *)
(* Union[Dict[str, Optional[int]], str] on {xxx:yyy} yields that string.   *)
C12_AllOrNothing ==
   /\ (op = "_ParseConvert" /\ typ.o \in {"list", "set", "tuple"} /\ HasLen(arg)
          /\ Len(ElementTypes(typ, Len(Items(arg)))) = Len(Items(arg))) =>
         LET args == ElementTypes(typ, Len(Items(arg)))
         IN  FailsAsFirstFailure([i \in DOMAIN args |-> ElementOutcome(args[i], Items(arg)[i])],
                                 outcome)
   /\ (op = "_ParseConvert" /\ typ.o = "dict" /\ typ.hasArgs /\ arg.ty = "dict") =>
         FailsAsFirstFailure(PairOutcomes(typ.args[1], typ.args[2], arg.elts, arg.vals),
                             outcome)
   /\ (IsSumCall /\ ~AbsenceShortcut(token, typ.args)) =>
         \A i \in Range(outcome.tried) :
            (/\ IsGenericAlias(typ.args[i]) /\ typ.args[i].o \in ContainerOrigins
             /\ IsOk(DefaultParseValue(token))
             /\ SomeElementFails(typ.args[i], DefaultParseValue(token).val)
             /\ \E j \in (i + 1)..Len(typ.args) : typ.args[j] # NoneT) =>
               NextVariant(typ.args, i) \in Range(outcome.tried)
   /\ (IsSumCall /\ typ = UnionT(<<DictT(StrT, OptionalT(IntT)), StrT>>)
          /\ token = <<"{", "x", "x", "x", ":", "y", "y", "y", "}">>) =>
         outcome.st = "ok" /\ outcome.val = StrV(token)

TwoDigits(n) == <<DigitChar(n \div 10), DigitChar(n % 10)>>

FourDigits(n) == TwoDigits(n \div 100) \o TwoDigits(n % 100)

DateSpelled(dt, sep) == FourDigits(dt[1]) \o sep \o TwoDigits(dt[2]) \o sep \o TwoDigits(dt[3])

ClockSpelled(dt) == TwoDigits(dt[4]) \o <<":">> \o TwoDigits(dt[5]) \o <<":">> \o TwoDigits(dt[6])

(* how the i-th pattern writes a date and time, every field at full width *)
Spelled(i, dt) ==
   CASE i = 1 -> DateSpelled(dt, <<"-">>) \o <<"-">> \o ClockSpelled(dt)
     [] i = 2 -> DateSpelled(dt, <<"-">>) \o <<" ">> \o ClockSpelled(dt)
     [] i = 3 -> DateSpelled(dt, <<"/">>) \o <<" ">> \o ClockSpelled(dt)
     [] i = 4 -> DateSpelled(dt, <<>>) \o TwoDigits(dt[4]) \o TwoDigits(dt[5]) \o TwoDigits(dt[6])
     [] i = 5 -> DateSpelled(dt, <<"/">>)
     [] i = 6 -> DateSpelled(dt, <<"-">>)

IsDateOnly(i) == i \in {5, 6}

(* what the i-th pattern reads back from its own spelling *)
ReadBack(i, dt) ==
   IF IsDateOnly(i) THEN DateTimeV(dt[1], dt[2], dt[3], 0, 0, 0)
   ELSE DateTimeV(dt[1], dt[2], dt[3], dt[4], dt[5], dt[6])

SampleTimes ==
   {<<2023, 9, 24, 12, 52, 33>>, <<2024, 2, 29, 23, 59, 59>>, <<2023, 9, 24, 0, 0, 0>>}

(* C13: ParseTime tries the six patterns in their order and returns what   *)
(* the first pattern that matches the whole token reads; a token that no   *)
(* pattern matches fails with UnparsableTimestamp; a date-only pattern     *)
(* gives hour, minute and second zero; a date and time written by a        *)
(* pattern is read back by that pattern.                                   *)
C13_FirstPatternWins ==
   op = "ParseTime" =>
      LET outs == [i \in DOMAIN TimeFormats |-> StrpTime(arg, TimeFormats[i])]
      IN  /\ IF \E i \in DOMAIN outs : IsOk(outs[i])
             THEN LET first == CHOOSE i \in DOMAIN outs :
                                  IsOk(outs[i]) /\ \A j \in 1..(i - 1) : ~IsOk(outs[j])
                  IN  /\ outcome.st = "ok" /\ outcome.val = outs[first].val
                      /\ outcome.tried = <<first>>
             ELSE outcome.st = "ValueError" /\ outcome.why = "UnparsableTimestamp"
          /\ (IsOk(outcome) /\ IsDateOnly(outcome.tried[1])) =>
                SubSeq(outcome.val.b, 4, 6) = <<0, 0, 0>>
          /\ \A i \in DOMAIN TimeFormats, dt \in SampleTimes :
                arg = StrV(Spelled(i, dt)) =>
                   outcome.st = "ok" /\ outcome.val = ReadBack(i, dt) /\ outcome.tried = <<i>>

(* 2023/09/24: four patterns fail before the fifth reads the date *)
C13_Witness ==
   /\ op = "ParseTime"
   /\ token = Spelled(5, <<2023, 9, 24, 0, 0, 0>>)
   /\ outcome = Tried(Ok(DateTimeV(2023, 9, 24, 0, 0, 0)), <<5>>)
   /\ \A i \in 1..4 : ~IsOk(StrpTime(arg, TimeFormats[i]))

(* C14: a successful Sequence or FixedTuple conversion of a list or tuple  *)
(* returns as many elements as it was given, and position i holds the      *)
(* conversion of element i against the type for position i: no element     *)
(* type, NoneType matched by None included, drops, repeats or moves a      *)
(* position.                                                               *)
C14_PositionsPreserved ==
   (op = "_ParseConvert" /\ typ.o \in {"list", "tuple"} /\ arg.ty \in {"list", "tuple"}
       /\ IsOk(outcome)) =>
      LET args == ElementTypes(typ, Len(arg.elts))
      IN  /\ Len(outcome.val.elts) = Len(arg.elts)
          /\ \A i \in DOMAIN arg.elts :
                outcome.val.elts[i] = ElementOutcome(args[i], arg.elts[i]).val

====
